---- MODULE Spec2Model ----
(***************************************************************************)
(* TTagger: the tag document manager (src/background/tagState.js), the     *)
(* storage accessors it persists through (src/storage/index.js) and the    *)
(* importer (src/background/importExport.js).                              *)
(*                                                                         *)
(* Strings the code inspects character by character (tag names, colors)    *)
(* are sequences of one-character strings.  The character U+2B50 of the    *)
(* reserved name is written "STAR".  Tag ids are the strings the code      *)
(* uses: "favorite" and the decimal numerals "1", "2", ...                 *)
(***************************************************************************)
EXTENDS Integers, Sequences, FiniteSets, TLC

VARIABLES
  storage,                \* sync storage, key 'tagState' (the persisted tag document)
  isOperationInProgress,  \* tagState.js module flag
  operationQueue,         \* tagState.js module queue of pending operations
  running,                \* operation bodies that were started and have not settled
  clock,                  \* the wall clock read by new Date()
  nextTicket,             \* number of operations submitted so far (submission order)
  importRun,              \* the handleImport call in progress, if any
  settled,                \* outcome of the operation body that settled last
  startedLast,            \* ticket of the operation body that started last
  expected,               \* the document obtained by applying the settled operations serially
  serialOrder,            \* the bodies settled so far settled in submission order
  rejected,               \* tickets of the submissions refused by the queue bound
  normalizeRun,           \* a document taken through normalizeTagState twice
  authState,              \* local storage, key 'authState' (the stored credentials)
  followCache,            \* local storage, key 'followCache'
  remote,                 \* what the remote API reports for each followed streamer
  calls,                  \* the calls of followCache.js and liveTracking.js in progress
  nextCall,               \* number of such calls made so far, plus one
  returned,               \* the call that settled last, with what it returned or threw
  rebuilds,               \* the unforced calls that issued a rebuild: when they read the cache
  broadcasts,             \* the auth statuses broadcast to the other surfaces
  liveState,              \* liveTracking.js module map: streamer id -> {isLive, startedAt}
  badge,                  \* the text of the action badge
  notifications,          \* the live notifications created so far: [run, id]
  preferences,            \* what getPreferences() returns
  observed,               \* what each live check saw when it evaluated the starred streamers
  savedLiveState,         \* local storage, key 'liveState' (the persisted live state)
  shouldRunLiveChecks,    \* liveTracking.js module flag
  initializationRunInFlight, \* liveTracking.js module flag
  lastRunMeta,            \* liveTracking.js: {trigger, completedAt, success} of the last run
  liveCheckTimeoutId,     \* liveTracking.js: the fallback timer armed last (0 is null)
  timers,                 \* the timers set with setTimeout and neither fired nor cleared
  nextTimer,              \* number of timers set so far, plus one
  alarm,                  \* the alarms API: whether it is available, whether the alarm is set
  jobs,                   \* the scheduler functions of liveTracking.js in progress
  nextJob,                \* number of such functions called after startup, plus one
  updateLog,              \* local storage, key 'updateLog' (the audit log)
  completedRuns           \* the runs of runLiveCheckAndLog completed so far, as recorded

\* the follow cache and the credentials
followVars == <<authState, followCache, remote, calls, nextCall, returned, rebuilds,
                broadcasts>>

\* the live tracking
liveVars == <<liveState, badge, notifications, preferences, observed, savedLiveState>>

\* the state outside the tag document manager and the importer
\* the scheduling of live checks
schedVars == <<shouldRunLiveChecks, initializationRunInFlight, lastRunMeta,
               liveCheckTimeoutId, timers, nextTimer, alarm, jobs, nextJob, updateLog,
               completedRuns>>

otherVars == <<normalizeRun, followVars, liveVars, schedVars>>

vars == <<storage, isOperationInProgress, operationQueue, running, clock,
          nextTicket, importRun, settled, startedLast, expected, serialOrder,
          rejected, otherVars>>

----------------------------------------------------------------------------
(* Bounds of the model *)

MaxOps == 3        \* operations submitted concurrently to the queue alone
MaxCalls == 2      \* calls in one behaviour with handleImport or with the full set of tag calls
MaxBurst == 53     \* operations submitted in one burst against the queue bound
MaxRefreshes == 2  \* calls of refreshFollowCache in one behaviour
MaxMinutes == 7    \* minutes of wall-clock time a behaviour of the follow cache spans
MaxLiveCalls == 2  \* calls of syncLiveAssignments and live checks in one behaviour
MaxTicks == 4      \* ten-minute steps of wall-clock time over a series of live checks
MaxStarTicks == 1  \* ten-minute steps of wall-clock time after the starred tag is assigned
MaxJobs == 2       \* ticks and calls of ensureLiveChecksRunning in one behaviour
MaxSeconds == 2    \* seconds of wall-clock time a behaviour of the scheduler spans

(* Program constants *)

MAX_QUEUE_SIZE == 50
RECENT_INITIALIZATION_DEBOUNCE_MS == 1500
DEFAULT_NOTIFICATION_MAX_AGE_MINUTES == 30
MAX_NOTIFICATION_MAX_AGE_MINUTES == 720
MIN_NOTIFICATION_MAX_AGE_MINUTES == 5
TagNameMaxLength == 50

STARRED_TAG_ID == "favorite"
STARRED_TAG_NAME == <<"STAR", " ", "S", "t", "a", "r", "r", "e", "d">>
StarredTagColor == <<"#", "f", "f", "c", "1", "0", "7">>

----------------------------------------------------------------------------
(* Generic helpers *)

EmptyMap == [k \in {} |-> 0]

Put(f, k, v) == [x \in (DOMAIN f) \cup {k} |-> IF x = k THEN v ELSE f[x]]

Delete(f, k) == [x \in (DOMAIN f) \ {k} |-> f[x]]

Min(a, b) == IF a < b THEN a ELSE b
Max(a, b) == IF a > b THEN a ELSE b

SetMax(S) == CHOOSE m \in S : \A x \in S : x <= m

Range(s) == {s[i] : i \in 1..Len(s)}

Includes(s, x) == \E i \in 1..Len(s) : s[i] = x

RECURSIVE Filter(_, _)
Filter(s, keep) ==
  IF s = <<>> THEN <<>>
  ELSE IF Head(s) \in keep THEN <<Head(s)>> \o Filter(Tail(s), keep)
       ELSE Filter(Tail(s), keep)

----------------------------------------------------------------------------
(* Characters and strings *)

UpperChars == <<"A","B","C","D","E","F","G","H","I","J","K","L","M",
                "N","O","P","Q","R","S","T","U","V","W","X","Y","Z">>
LowerChars == <<"a","b","c","d","e","f","g","h","i","j","k","l","m",
                "n","o","p","q","r","s","t","u","v","w","x","y","z">>
DigitChars == <<"0","1","2","3","4","5","6","7","8","9">>

LowerChar(c) ==
  IF \E i \in 1..Len(UpperChars) : UpperChars[i] = c
  THEN LowerChars[CHOOSE i \in 1..Len(UpperChars) : UpperChars[i] = c]
  ELSE c

toLowerCase(s) == [i \in 1..Len(s) |-> LowerChar(s[i])]

IsHexChar(c) ==
  \/ \E i \in 1..Len(DigitChars) : DigitChars[i] = c
  \/ \E i \in 1..6 : LowerChars[i] = c \/ UpperChars[i] = c

RECURSIVE TrimStart(_)
TrimStart(s) == IF s # <<>> /\ Head(s) = " " THEN TrimStart(Tail(s)) ELSE s

RECURSIVE TrimEnd(_)
TrimEnd(s) ==
  IF s # <<>> /\ s[Len(s)] = " " THEN TrimEnd(SubSeq(s, 1, Len(s) - 1)) ELSE s

Trim(s) == TrimEnd(TrimStart(s))

\* /<[^>]*>/ matches somewhere in s
HasHtmlTag(s) == \E i, j \in 1..Len(s) : i < j /\ s[i] = "<" /\ s[j] = ">"

\* s.replace(/<[^>]*>/g, '')
RECURSIVE StripHtml(_)
StripHtml(s) ==
  IF ~HasHtmlTag(s) THEN s
  ELSE LET i == CHOOSE p \in 1..Len(s) :
                  /\ s[p] = "<"
                  /\ \E q \in (p+1)..Len(s) : s[q] = ">"
                  /\ \A p2 \in 1..(p-1) :
                       ~(s[p2] = "<" /\ \E q \in (p2+1)..Len(s) : s[q] = ">")
           j == CHOOSE q \in (i+1)..Len(s) :
                  s[q] = ">" /\ \A q2 \in (i+1)..(q-1) : s[q2] # ">"
       IN SubSeq(s, 1, i - 1) \o StripHtml(SubSeq(s, j + 1, Len(s)))

isValidTagName(name) ==
  /\ Len(name) # 0
  /\ Len(name) <= TagNameMaxLength
  /\ ~HasHtmlTag(name)

sanitizeTagName(name) ==
  LET trimmed == Trim(StripHtml(name))
  IN SubSeq(trimmed, 1, Min(Len(trimmed), TagNameMaxLength))

\* /^#?([0-9a-fA-F]{6})$/
IsHexColor(s) ==
  \/ Len(s) = 6 /\ \A i \in 1..6 : IsHexChar(s[i])
  \/ Len(s) = 7 /\ s[1] = "#" /\ \A i \in 2..7 : IsHexChar(s[i])

\* normalizeTagColor without strict: an invalid color is answered like none
normalizeTagColorLenient(color) == [threw |-> FALSE, value |-> <<>>]

\* normalizeTagColor(color, {strict: true}); <<>> stands for null
normalizeTagColor(color) ==
  LET trimmed == Trim(color)
  IN IF trimmed = <<>> THEN [threw |-> FALSE, value |-> <<>>]
     ELSE IF ~IsHexColor(trimmed) THEN [threw |-> TRUE, value |-> <<>>]
     ELSE [threw |-> FALSE,
           value |-> <<"#">> \o toLowerCase(IF Len(trimmed) = 7 THEN Tail(trimmed) ELSE trimmed)]

TAG_COLOR_POOL ==
  << <<"#","6","f","4","2","c","1">>, <<"#","2","2","c","5","5","e">>,
     <<"#","f","f","6","f","6","1">>, <<"#","f","9","7","3","1","6">>,
     <<"#","f","a","c","c","1","5">>, <<"#","2","5","6","3","e","b">>,
     <<"#","1","4","b","8","a","6">>, <<"#","0","e","a","5","e","9">>,
     <<"#","e","c","4","8","9","9">>, <<"#","e","f","4","4","4","4">>,
     <<"#","6","5","a","3","0","d">>, <<"#","4","b","5","5","6","3">> >>

----------------------------------------------------------------------------
(* Tag ids *)

IdNumerals == <<"1","2","3","4","5","6","7","8","9">>

IsNumericId(id) == \E n \in 1..Len(IdNumerals) : IdNumerals[n] = id

\* Number(id) for an id with IsNumericId(id); every other id gives NaN
NumberOf(id) == CHOOSE n \in 1..Len(IdNumerals) : IdNumerals[n] = id

\* String(n)
StringOf(n) == IdNumerals[n]

\* String(a).localeCompare(String(b)) < 0, for the ids of the model
IdBefore(a, b) ==
  IF IsNumericId(a) /\ IsNumericId(b) THEN NumberOf(a) < NumberOf(b)
  ELSE IsNumericId(a) /\ ~IsNumericId(b)

\* pickTagColor that answers the first entry of the pool for every id
pickTagColorFirst(tagId) == TAG_COLOR_POOL[1]

\* pickTagColor(tagId); the pool is indexed from 0 in the code, and for numeric = 0
\* the index is -1 (JavaScript's % keeps the sign), an undefined entry: <<>>
pickTagColor(tagId) ==
  LET numeric == IF IsNumericId(tagId) THEN NumberOf(tagId) ELSE 0
  IN IF numeric = 0 THEN <<>>
     ELSE TAG_COLOR_POOL[((numeric - 1) % Len(TAG_COLOR_POOL)) + 1]

----------------------------------------------------------------------------
(* The tag document: [tags, assignments, nextId].  tags maps an id to a tag  *)
(* record, assignments maps a streamer id to a sequence of tag ids.          *)
(* createdAt and updatedAt are clock readings; updatedAt = 0 and             *)
(* locked = FALSE stand for an absent field.                                 *)

Tag(id, name, color, createdAt, locked, sortOrder) ==
  [id |-> id, name |-> name, color |-> color, createdAt |-> createdAt,
   updatedAt |-> 0, locked |-> locked, sortOrder |-> sortOrder]

defaultTagState == [tags |-> EmptyMap, assignments |-> EmptyMap, nextId |-> 1]

\* Object.keys / Object.values order: integer keys ascending, then string keys
KeyBefore(a, b) == IdBefore(a, b)

\* compareTagsByOrderWithCreatedAt(a, b) < 0; every tag of the model has a
\* numeric sortOrder and a parsable createdAt
compareTagsByOrderWithCreatedAt(a, b) ==
  IF a.sortOrder # b.sortOrder THEN a.sortOrder - b.sortOrder
  ELSE IF a.createdAt # b.createdAt THEN a.createdAt - b.createdAt
  ELSE IF a.id = b.id THEN 0
  ELSE IF IdBefore(a.id, b.id) THEN -1 ELSE 1

\* Position (1-based) of the tag stored under key k after the stable
\* Array.prototype.sort of the tags stored under keys ks
SortedPosition(tags, ks, k) ==
  1 + Cardinality({k2 \in ks \ {k} :
        LET c == compareTagsByOrderWithCreatedAt(tags[k2], tags[k])
        IN c < 0 \/ (c = 0 /\ KeyBefore(k2, k))})

SortableKeys(tags) == {k \in DOMAIN tags : tags[k].id # STARRED_TAG_ID}

ensureSortOrder(state) ==
  LET sortable == SortableKeys(state.tags)
      ordered == [k \in DOMAIN state.tags |->
                   IF k \in sortable
                   THEN [state.tags[k] EXCEPT !.sortOrder = SortedPosition(state.tags, sortable, k)]
                   ELSE state.tags[k]]
      pinned == [k \in DOMAIN ordered |->
                   IF k = STARRED_TAG_ID THEN [ordered[k] EXCEPT !.sortOrder = 0]
                   ELSE ordered[k]]
  IN [state EXCEPT !.tags = pinned]

getNextSortOrder(state) ==
  LET orders == {state.tags[k].sortOrder : k \in SortableKeys(state.tags)}
      positive == {o \in orders : o > 0}
  IN (IF positive = {} THEN 0 ELSE SetMax(positive)) + 1

\* ensureNextId that always derives the counter from the ids present
ensureNextIdFromPresent(state) ==
  LET numericIds == {NumberOf(k) : k \in {x \in DOMAIN state.tags : IsNumericId(x)}}
  IN [state EXCEPT !.nextId = IF numericIds = {} THEN 1 ELSE SetMax(numericIds) + 1]

ensureNextId(state) ==
  LET numericIds == {NumberOf(k) : k \in {x \in DOMAIN state.tags : IsNumericId(x)}}
      maxId == IF numericIds = {} THEN 0 ELSE SetMax(numericIds)
      next == state.nextId
  IN [state EXCEPT !.nextId = IF next > maxId THEN next ELSE maxId + 1]

\* addOrNormalizeStarredTag that stamps createdAt on every call
addOrNormalizeStarredTagRestamp(state, now) ==
  [state EXCEPT !.tags =
     Put(state.tags, STARRED_TAG_ID,
         Tag(STARRED_TAG_ID, STARRED_TAG_NAME, StarredTagColor, now, TRUE, 0))]

addOrNormalizeStarredTag(state, now) ==
  IF STARRED_TAG_ID \notin DOMAIN state.tags
  THEN [state EXCEPT !.tags =
          Put(state.tags, STARRED_TAG_ID,
              Tag(STARRED_TAG_ID, STARRED_TAG_NAME, StarredTagColor, now, TRUE, 0))]
  ELSE LET favorite == state.tags[STARRED_TAG_ID]
       IN [state EXCEPT !.tags[STARRED_TAG_ID] =
             [favorite EXCEPT !.id = STARRED_TAG_ID,
                              !.name = STARRED_TAG_NAME,
                              !.color = IF favorite.color = <<>> THEN StarredTagColor
                                        ELSE favorite.color,
                              !.locked = TRUE,
                              !.createdAt = IF favorite.createdAt = 0 THEN now
                                            ELSE favorite.createdAt,
                              !.sortOrder = 0]]

cleanOrphanedAssignments(state) ==
  LET validTagIds == DOMAIN state.tags
      kept == {s \in DOMAIN state.assignments :
                 Filter(state.assignments[s], validTagIds) # <<>>}
  IN [state EXCEPT !.assignments =
        [s \in kept |-> Filter(state.assignments[s], validTagIds)]]

\* normalizeTagState(state) evaluated when the clock reads now; the stored
\* value is always an object, and Number(state.nextId) || 1 maps 0 to 1
normalizeTagState(state, now) ==
  LET normalized == [tags |-> state.tags,
                     assignments |-> state.assignments,
                     nextId |-> IF state.nextId = 0 THEN 1 ELSE state.nextId]
  IN cleanOrphanedAssignments(
       ensureSortOrder(ensureNextId(addOrNormalizeStarredTag(normalized, now))))

----------------------------------------------------------------------------
(* The six operations of tagState.js, each as the function its body         *)
(* computes from the document it loaded (raw) and the clock reading (now).  *)
(* An operation is a record [kind, nameProvided, name, colorProvided,       *)
(* color, tagId, streamerId, shouldAssign, tagIds]; tagId = "" is a missing *)
(* (falsy) tagId.  The result is [outcome, state, error]:                   *)
(*   "throw"  the body threw error before any write;                        *)
(*   "return" the body returned state without writing;                      *)
(*   "write"  the body calls setTagState(state) and then returns state.     *)

Op(kind, nameProvided, name, colorProvided, color, tagId, streamerId, shouldAssign, tagIds) ==
  [kind |-> kind, nameProvided |-> nameProvided, name |-> name,
   colorProvided |-> colorProvided, color |-> color, tagId |-> tagId,
   streamerId |-> streamerId, shouldAssign |-> shouldAssign, tagIds |-> tagIds]

UpsertOp(nameProvided, name, colorProvided, color, tagId) ==
  Op("upsertTag", nameProvided, name, colorProvided, color, tagId, "", FALSE, <<>>)
RemoveOp(tagId) == Op("removeTag", FALSE, <<>>, FALSE, <<>>, tagId, "", FALSE, <<>>)
AssignOp(streamerId, tagId, shouldAssign) ==
  Op("updateAssignment", FALSE, <<>>, FALSE, <<>>, tagId, streamerId, shouldAssign, <<>>)
ReplaceOp(streamerId, tagIds) ==
  Op("replaceAssignments", FALSE, <<>>, FALSE, <<>>, "", streamerId, FALSE, tagIds)
ReorderOp(tagIds) == Op("reorderTags", FALSE, <<>>, FALSE, <<>>, "", "", FALSE, tagIds)
ResetOp == Op("resetTagStateToDefault", FALSE, <<>>, FALSE, <<>>, "", "", FALSE, <<>>)

\* a failed validation that persists the loaded document instead of throwing
ThrowAfterWrite(state, error) == [outcome |-> "write", state |-> state, error |-> error]

Throw(state, error) == [outcome |-> "throw", state |-> state, error |-> error]
Return(state) == [outcome |-> "return", state |-> state, error |-> ""]
Write(state) == [outcome |-> "write", state |-> state, error |-> ""]

\* the reserved names without STARRED_TAG_NAME_LOWER
ReservedNamesWithoutStarredName ==
  { <<"f","a","v","o","r","i","t","e">>,
    <<"s","t","a","r","r","e","d">> }

\* the names refused as a user-chosen name: STARRED_TAG_NAME_LOWER, 'favorite', 'starred'
ReservedNames ==
  { toLowerCase(STARRED_TAG_NAME),
    <<"f","a","v","o","r","i","t","e">>,
    <<"s","t","a","r","r","e","d">> }

\* assertNotStarredTag that never throws
assertNotStarredTagSkipped(tagId) == TRUE

assertNotStarredTag(tagId) == tagId # STARRED_TAG_ID

\* findDuplicate comparing the stored names without lowering their case
findDuplicateExact(tags, targetId, normalizedName) ==
  \E k \in DOMAIN tags :
    /\ tags[k].id # targetId
    /\ tags[k].name = normalizedName

\* Object.values(state.tags).find(...) finds a duplicate of normalizedName among
\* the tags other than targetId; targetId = "" on the create path, where no tag
\* is excluded
findDuplicate(tags, targetId, normalizedName) ==
  \E k \in DOMAIN tags :
    /\ tags[k].id # targetId
    /\ toLowerCase(tags[k].name) = normalizedName

\* the body of upsertTag after its first four statements: state is the
\* normalized document, trimmedName the sanitized name ('' when none was given),
\* colorResult the outcome of normalizeTagColor(fields.color, {strict: true})
UpsertValidated(op, state, now, trimmedName, normalizedName, normalizedColor) ==
  IF op.tagId # ""
  THEN IF ~assertNotStarredTag(op.tagId) THEN Throw(state, "Favorite tag cannot be modified.")
       ELSE IF op.tagId \notin DOMAIN state.tags THEN Throw(state, "Tag not found.")
       ELSE IF op.nameProvided /\ trimmedName = <<>>
       THEN Throw(state, "Tag name cannot be empty.")
       ELSE IF op.nameProvided /\ normalizedName \in ReservedNames
       THEN Throw(state, "Starred tag already exists.")
       ELSE IF op.nameProvided /\ findDuplicate(state.tags, op.tagId, normalizedName)
       THEN Throw(state, "A tag with that name already exists.")
       ELSE Write([state EXCEPT !.tags[op.tagId] =
                     [state.tags[op.tagId] EXCEPT
                        !.name = IF op.nameProvided THEN trimmedName ELSE @,
                        !.color = IF op.colorProvided /\ normalizedColor # <<>>
                                  THEN normalizedColor ELSE @,
                        !.updatedAt = now]])
  ELSE IF ~op.nameProvided \/ trimmedName = <<>>
       THEN Throw(state, "Tag name cannot be empty.")
       ELSE IF normalizedName \in ReservedNames
       THEN Throw(state, "Starred tag already exists.")
       ELSE IF findDuplicate(state.tags, "", normalizedName)
       THEN Throw(state, "A tag with that name already exists.")
       ELSE Write([tags |-> Put(state.tags, StringOf(state.nextId),
                                Tag(StringOf(state.nextId), trimmedName,
                                    IF op.colorProvided /\ normalizedColor # <<>>
                                    THEN normalizedColor
                                    ELSE pickTagColor(StringOf(state.nextId)),
                                    now, FALSE, getNextSortOrder(state))),
                   assignments |-> state.assignments,
                   nextId |-> state.nextId + 1])

UpsertChecked(op, state, now, trimmedName, colorResult) ==
  IF colorResult.threw THEN Throw(state, "Tag color must be a 6-digit hex value.")
  ELSE IF op.nameProvided /\ trimmedName # <<>> /\ ~isValidTagName(trimmedName)
  THEN Throw(state, "Tag name contains invalid characters or is too long.")
  ELSE UpsertValidated(op, state, now, trimmedName, toLowerCase(trimmedName),
                       colorResult.value)

upsertTag(op, raw, now) ==
  UpsertChecked(op, normalizeTagState(raw, now), now,
                IF op.nameProvided THEN sanitizeTagName(op.name) ELSE <<>>,
                IF op.colorProvided THEN normalizeTagColor(op.color)
                ELSE [threw |-> FALSE, value |-> <<>>])

\* the forEach of removeTag and the else branch of updateAssignment:
\* drop targetId from the list of streamerId, and the entry when it empties
StripAssignment(assignments, streamerId, targetId) ==
  LET filtered == Filter(assignments[streamerId], Range(assignments[streamerId]) \ {targetId})
  IN IF filtered # <<>> THEN [assignments EXCEPT ![streamerId] = filtered]
     ELSE Delete(assignments, streamerId)

\* removeTag without its forEach over the assignments
StripNone(assignments, streamers, targetId) == assignments

RECURSIVE StripAll(_, _, _)
StripAll(assignments, streamers, targetId) ==
  IF streamers = {} THEN assignments
  ELSE LET s == CHOOSE x \in streamers : TRUE
       IN StripAll(StripAssignment(assignments, s, targetId), streamers \ {s}, targetId)

RemoveFrom(state, targetId) ==
  IF ~assertNotStarredTag(targetId) THEN Throw(state, "Favorite tag cannot be modified.")
  ELSE IF targetId \notin DOMAIN state.tags THEN Return(state)
  ELSE Write([state EXCEPT
                !.tags = Delete(state.tags, targetId),
                !.assignments = StripAll(state.assignments, DOMAIN state.assignments, targetId)])

removeTag(op, raw, now) == RemoveFrom(normalizeTagState(raw, now), op.tagId)

\* current is state.assignments[streamerId] || []
UpdateIn(state, streamerId, targetId, shouldAssign, current) ==
  IF targetId \notin DOMAIN state.tags THEN Throw(state, "Tag not found.")
  ELSE IF shouldAssign
  THEN IF ~Includes(current, targetId)
       THEN Write([state EXCEPT !.assignments =
                     Put(state.assignments, streamerId, Append(current, targetId))])
       ELSE Write(state)
  ELSE IF streamerId \in DOMAIN state.assignments
       THEN Write([state EXCEPT !.assignments =
                     StripAssignment(state.assignments, streamerId, targetId)])
       ELSE Write(state)

AssignmentsOf(state, streamerId) ==
  IF streamerId \in DOMAIN state.assignments THEN state.assignments[streamerId] ELSE <<>>

UpdateLoaded(state, op) ==
  UpdateIn(state, op.streamerId, op.tagId, op.shouldAssign, AssignmentsOf(state, op.streamerId))

updateAssignment(op, raw, now) == UpdateLoaded(normalizeTagState(raw, now), op)

ReplaceIn(state, streamerId, valid) ==
  IF valid # <<>>
  THEN Write([state EXCEPT !.assignments = Put(state.assignments, streamerId, valid)])
  ELSE Write([state EXCEPT !.assignments = Delete(state.assignments, streamerId)])

ReplaceLoaded(state, op) == ReplaceIn(state, op.streamerId, Filter(op.tagIds, DOMAIN state.tags))

replaceAssignments(op, raw, now) == ReplaceLoaded(normalizeTagState(raw, now), op)

\* the ids of desired that the first forEach of reorderTags positions, in order
RECURSIVE Positioned(_, _, _)
Positioned(desired, tags, seen) ==
  IF desired = <<>> THEN <<>>
  ELSE IF Head(desired) = STARRED_TAG_ID \/ Head(desired) \in seen
          \/ Head(desired) \notin DOMAIN tags
       THEN Positioned(Tail(desired), tags, seen)
       ELSE <<Head(desired)>> \o Positioned(Tail(desired), tags, seen \cup {Head(desired)})

IndexOf(s, x) == CHOOSE i \in 1..Len(s) : s[i] = x

\* reorderTags without its second forEach: the tags not listed keep their
\* sortOrder
ReorderWithoutRemaining(state, listed, remaining) ==
  Write([state EXCEPT !.tags =
    [k \in DOMAIN state.tags |->
       IF k = STARRED_TAG_ID THEN [state.tags[k] EXCEPT !.sortOrder = 0]
       ELSE IF Includes(listed, k)
       THEN [state.tags[k] EXCEPT !.sortOrder = IndexOf(listed, k)]
       ELSE state.tags[k]]])

\* listed got positions 1..Len(listed); remaining, the custom tags not listed,
\* follow in comparator order; the starred tag is pinned to 0
ReorderWith(state, listed, remaining) ==
  Write([state EXCEPT !.tags =
    [k \in DOMAIN state.tags |->
       IF k = STARRED_TAG_ID THEN [state.tags[k] EXCEPT !.sortOrder = 0]
       ELSE IF Includes(listed, k)
       THEN [state.tags[k] EXCEPT !.sortOrder = IndexOf(listed, k)]
       ELSE IF k \in remaining
       THEN [state.tags[k] EXCEPT !.sortOrder =
               Len(listed) + SortedPosition(state.tags, remaining, k)]
       ELSE state.tags[k]]])

ReorderListed(state, listed) ==
  ReorderWith(state, listed,
              {k \in DOMAIN state.tags :
                 state.tags[k].id # STARRED_TAG_ID /\ ~Includes(listed, state.tags[k].id)})

ReorderLoaded(state, op) == ReorderListed(state, Positioned(op.tagIds, state.tags, {}))

reorderTags(op, raw, now) == ReorderLoaded(normalizeTagState(raw, now), op)

\* resetTagStateToDefault writes fresh and returns normalizeTagState(fresh)
FreshState(now) ==
  [tags |-> Put(EmptyMap, STARRED_TAG_ID,
                Tag(STARRED_TAG_ID, STARRED_TAG_NAME, StarredTagColor, now, TRUE, 0)),
   assignments |-> EmptyMap,
   nextId |-> 1]

resetTagStateToDefault(op, raw, now) == Write(FreshState(now))

\* the body of operation op
Body(op, raw, now) ==
  CASE op.kind = "upsertTag" -> upsertTag(op, raw, now)
    [] op.kind = "removeTag" -> removeTag(op, raw, now)
    [] op.kind = "updateAssignment" -> updateAssignment(op, raw, now)
    [] op.kind = "replaceAssignments" -> replaceAssignments(op, raw, now)
    [] op.kind = "reorderTags" -> reorderTags(op, raw, now)
    [] op.kind = "resetTagStateToDefault" -> resetTagStateToDefault(op, raw, now)

----------------------------------------------------------------------------
(* The serial queue of tagState.js.  A queue entry is [ticket, op, owner];  *)
(* owner is "import" for the reset that handleImport awaits, "caller"       *)
(* otherwise.  A started body is [ticket, op, owner, pc, state]: it waits   *)
(* for getTagState (pc = "load"), for checkStorageQuota inside setTagState  *)
(* (pc = "quota") or for storageSet (pc = "write"); state is the document   *)
(* it is about to write.  JavaScript runs to the next await without         *)
(* interleaving, so each action below is one such run.                      *)

\* the capacity test with > in place of >=
QueueIsFullStrict(queue) == Len(queue) > MAX_QUEUE_SIZE

QueueIsFull(queue) == Len(queue) >= MAX_QUEUE_SIZE

\* lines 72-80 of processQueue: set the flag and run the body of the entry next
\* up to its first await, getTagState for the five operations that load,
\* checkStorageQuota for resetTagStateToDefault, which reads the clock before it;
\* rest is the queue after the shift
StartBody(next, isReset, rest, bodies, now) ==
  [inProgress |-> TRUE, queue |-> rest,
   bodies |-> bodies \cup
                {[ticket |-> next.ticket, op |-> next.op, owner |-> next.owner,
                  pc |-> IF isReset THEN "quota" ELSE "load",
                  now |-> IF isReset THEN now ELSE 0,
                  usage |-> 0,
                  state |-> IF isReset THEN FreshState(now) ELSE defaultTagState]},
   clock |-> IF isReset THEN now + 1 ELSE now,
   started |-> next.ticket]

\* processQueue without the test of isOperationInProgress
processQueueUnguarded(inProgress, queue, bodies, now) ==
  IF queue = <<>>
  THEN [inProgress |-> inProgress, queue |-> queue, bodies |-> bodies,
        clock |-> now, started |-> 0]
  ELSE StartBody(Head(queue), Head(queue).op.kind = "resetTagStateToDefault",
                 Tail(queue), bodies, now)

\* processQueue with pop() in place of shift()
processQueueLifo(inProgress, queue, bodies, now) ==
  IF inProgress \/ queue = <<>>
  THEN [inProgress |-> inProgress, queue |-> queue, bodies |-> bodies,
        clock |-> now, started |-> 0]
  ELSE StartBody(queue[Len(queue)], queue[Len(queue)].op.kind = "resetTagStateToDefault",
                 SubSeq(queue, 1, Len(queue) - 1), bodies, now)

\* processQueue(): the new values of the flag, the queue, the started bodies and
\* the clock, and the ticket it started (0 when it started nothing)
processQueue(inProgress, queue, bodies, now) ==
  IF inProgress \/ queue = <<>>
  THEN [inProgress |-> inProgress, queue |-> queue, bodies |-> bodies,
        clock |-> now, started |-> 0]
  ELSE StartBody(Head(queue), Head(queue).op.kind = "resetTagStateToDefault",
                 Tail(queue), bodies, now)

EmptyPayload == [tags |-> <<>>, assignments |-> EmptyMap, starred |-> <<>>]

\* importRun when no handleImport call is in progress; outcome is how the last one ended
NoImport(outcome) ==
  [pc |-> "idle", payload |-> EmptyPayload, state |-> defaultTagState, outcome |-> outcome,
   before |-> defaultTagState, usage |-> 0]

NoneSettled ==
  [ticket |-> 0, op |-> ResetOp, outcome |-> "none", state |-> defaultTagState, error |-> ""]

\* getTagState(): the stored value, or defaultTagState when the key is absent
getTagState == storage

\* The operation of a settled body applied to doc in one piece, under the clock
\* reading and the storage outcome the body met (envFailed: the quota check
\* blocked or storageSet failed).  It defines the ghost variable expected.
SerialResult(doc, res, envFailed) ==
  IF res.outcome = "write" /\ ~envFailed THEN res.state ELSE doc

ApplySerially(doc, body, envFailed) ==
  SerialResult(doc, Body(body.op, doc, body.now), envFailed)

----------------------------------------------------------------------------
(* handleImport (importExport.js).  A payload is [tags, assignments,       *)
(* starred]: tags a sequence of [name, color, hasOrder, sortOrder] (color   *)
(* <<>> when absent), assignments a map from streamer id to a sequence of   *)
(* tag names, starred a sequence of streamer ids.  The entries of the       *)
(* model carry no createdAt or updatedAt, as the exported file has none.    *)

ImportMaxTags == 1000
ImportMaxAssignments == 10000
ImportMaxStarred == 10000

RECURSIVE Dedup(_)
Dedup(s) ==
  IF s = <<>> THEN <<>>
  ELSE LET rest == Dedup(SubSeq(s, 1, Len(s) - 1))
       IN IF Includes(rest, s[Len(s)]) THEN rest ELSE Append(rest, s[Len(s)])

\* isValidHexColor(color): /^#?[0-9A-Fa-f]{6}$/
isValidHexColor(color) == IsHexColor(color)

\* validateImportPayload(payload) returns without throwing
validateImportPayload(payload) ==
  /\ Len(payload.tags) <= ImportMaxTags
  /\ Cardinality(DOMAIN payload.assignments) <= ImportMaxAssignments
  /\ Len(payload.starred) <= ImportMaxStarred
  /\ \A i \in 1..Len(payload.tags) :
       /\ payload.tags[i].name # <<>>
       /\ isValidTagName(payload.tags[i].name)
       /\ payload.tags[i].color # <<>> => isValidHexColor(payload.tags[i].color)

RECURSIVE normalizeImportedTags(_)
normalizeImportedTags(rawTags) ==
  IF rawTags = <<>> THEN <<>>
  ELSE LET tag == Head(rawTags)
           rawName == Trim(tag.name)
           name == sanitizeTagName(rawName)
           color == Trim(tag.color)
           entry == [name |-> name,
                     color |-> IF color # <<>> /\ isValidHexColor(color)
                               THEN (IF color[1] = "#" THEN color ELSE <<"#">> \o color)
                               ELSE <<>>,
                     hasOrder |-> tag.hasOrder,
                     sortOrder |-> tag.sortOrder]
       IN IF rawName = <<>> \/ name = <<>> \/ ~isValidTagName(name)
          THEN normalizeImportedTags(Tail(rawTags))
          ELSE <<entry>> \o normalizeImportedTags(Tail(rawTags))

\* String.prototype.localeCompare for the characters of the model: a first
\* comparison ignoring case (space, punctuation, digits, letters), then lower
\* case before upper case at the first difference
CollationChars == <<" ", "<", ">", "#", "STAR">> \o DigitChars \o LowerChars

CollationRank(c) ==
  CHOOSE i \in 1..Len(CollationChars) : CollationChars[i] = LowerChar(c)

RECURSIVE ComparePrimary(_, _)
ComparePrimary(a, b) ==
  IF a = <<>> /\ b = <<>> THEN 0
  ELSE IF a = <<>> THEN -1
  ELSE IF b = <<>> THEN 1
  ELSE IF CollationRank(Head(a)) # CollationRank(Head(b))
       THEN CollationRank(Head(a)) - CollationRank(Head(b))
       ELSE ComparePrimary(Tail(a), Tail(b))

RECURSIVE CompareCase(_, _)
CompareCase(a, b) ==
  IF a = <<>> \/ b = <<>> THEN 0
  ELSE IF Head(a) = Head(b) THEN CompareCase(Tail(a), Tail(b))
  ELSE IF Head(a) = LowerChar(Head(a)) THEN -1 ELSE 1

localeCompare(a, b) ==
  IF ComparePrimary(a, b) # 0 THEN ComparePrimary(a, b) ELSE CompareCase(a, b)

\* compareTagsByOrder(a, b) on imported entries, which have no id
compareTagsByOrder(a, b) ==
  IF a.hasOrder /\ b.hasOrder /\ a.sortOrder # b.sortOrder THEN a.sortOrder - b.sortOrder
  ELSE IF a.hasOrder /\ ~b.hasOrder THEN -1
  ELSE IF ~a.hasOrder /\ b.hasOrder THEN 1
  ELSE localeCompare(a.name, b.name)

\* sortTagsByOrder(list): a stable sort of a copy
sortTagsByOrder(list) ==
  LET position(i) ==
        1 + Cardinality({j \in (1..Len(list)) \ {i} :
              LET c == compareTagsByOrder(list[j], list[i])
              IN c < 0 \/ (c = 0 /\ j < i)})
  IN [p \in 1..Len(list) |-> list[CHOOSE i \in 1..Len(list) : position(i) = p]]

\* the tags.forEach of handleImport from entry index on: acc is [working, nameToId]
RECURSIVE ImportTags(_, _, _, _)
ImportTags(tags, index, acc, now) ==
  IF index > Len(tags) THEN acc
  ELSE LET tag == tags[index]
           lower == toLowerCase(tag.name)
           newId == StringOf(acc.working.nextId)
           entry == Tag(newId, tag.name,
                        IF tag.color # <<>> THEN tag.color ELSE pickTagColor(newId),
                        now, FALSE, index)
       IN IF lower \in ReservedNames \/ lower \in DOMAIN acc.nameToId
          THEN ImportTags(tags, index + 1, acc, now)
          ELSE ImportTags(tags, index + 1,
                 [working |-> [acc.working EXCEPT
                                 !.nextId = acc.working.nextId + 1,
                                 !.tags = Put(acc.working.tags, newId, entry)],
                  nameToId |-> Put(acc.nameToId, lower, newId)],
                 now)

\* normalizeImportedAssignments, then the Object.entries(assignments).forEach
ImportAssignments(rawAssignments, nameToId) ==
  LET names(s) == Dedup(Filter([i \in 1..Len(rawAssignments[s]) |-> Trim(rawAssignments[s][i])],
                               {Trim(rawAssignments[s][i]) : i \in 1..Len(rawAssignments[s])}
                                 \ {<<>>}))
      known(s) == Filter([i \in 1..Len(names(s)) |-> toLowerCase(names(s)[i])],
                         DOMAIN nameToId)
      resolved(s) == Dedup([i \in 1..Len(known(s)) |-> nameToId[known(s)[i]]])
      kept == {s \in DOMAIN rawAssignments : resolved(s) # <<>>}
  IN [s \in kept |-> resolved(s)]

\* normalizeImportedStarred, then the starred.forEach
RECURSIVE ImportStarred(_, _)
ImportStarred(starred, assignments) ==
  IF starred = <<>> THEN assignments
  ELSE LET streamerId == Head(starred)
           list == IF streamerId \in DOMAIN assignments THEN assignments[streamerId]
                   ELSE <<>>
           next == IF Includes(list, STARRED_TAG_ID) THEN list
                   ELSE Append(list, STARRED_TAG_ID)
       IN ImportStarred(Tail(starred), Put(assignments, streamerId, next))

\* lines 232-249 of handleImport: built is [working, nameToId] after the tags
ImportFinish(payload, built, now) ==
  normalizeTagState(
    [built.working EXCEPT !.assignments =
       ImportStarred(Dedup(payload.starred),
                     ImportAssignments(payload.assignments, built.nameToId))],
    now)

\* lines 197-249 of handleImport: the document it passes to setTagState, from
\* the document state that resetTagStateToDefault resolved with
ImportedState(payload, state, now) ==
  ImportFinish(payload,
               ImportTags(sortTagsByOrder(normalizeImportedTags(payload.tags)), 1,
                          [working |-> [state EXCEPT !.assignments = EmptyMap],
                           nameToId |-> EmptyMap], now),
               now)

----------------------------------------------------------------------------
(* Actions *)

\* the try/finally of processQueue after the awaited body settled: resolve or
\* reject the caller, clear the flag, start the next queued operation (after is
\* what processQueue() did); when the caller is handleImport, its continuation
\* runs up to the checkStorageQuota of its own setTagState, or handleImport rejects
SettleThen(body, outcome, result, error, newStorage, envFailed, after) ==
  /\ storage' = newStorage
  /\ isOperationInProgress' = after.inProgress
  /\ operationQueue' = after.queue
  /\ running' = after.bodies
  /\ clock' = IF body.owner = "import" /\ outcome = "resolved"
              THEN after.clock + 1 ELSE after.clock
  /\ startedLast' = IF after.started # 0 THEN after.started ELSE startedLast
  /\ settled' = [ticket |-> body.ticket, op |-> body.op, outcome |-> outcome,
                 state |-> result, error |-> error]
  /\ expected' = ApplySerially(expected, body, envFailed)
  /\ serialOrder' = (serialOrder /\ body.ticket > settled.ticket)
  /\ importRun' =
       IF body.owner # "import" THEN importRun
       ELSE IF outcome = "resolved"
       THEN [importRun EXCEPT !.pc = "quota",
                              !.state = ImportedState(importRun.payload, result, after.clock)]
       ELSE NoImport("rejected")
  /\ UNCHANGED <<nextTicket, rejected>>

\* processQueue whose finally leaves isOperationInProgress set
SettleKeepingFlag(body, outcome, result, error, newStorage, now, envFailed) ==
  SettleThen(body, outcome, result, error, newStorage, envFailed,
             processQueue(TRUE, operationQueue,
                          {b \in running : b.ticket # body.ticket}, now))

Settle(body, outcome, result, error, newStorage, now, envFailed) ==
  SettleThen(body, outcome, result, error, newStorage, envFailed,
             processQueue(FALSE, operationQueue,
                          {b \in running : b.ticket # body.ticket}, now))

EnqueueThen(after) ==
  /\ isOperationInProgress' = after.inProgress
  /\ operationQueue' = after.queue
  /\ running' = after.bodies
  /\ clock' = after.clock
  /\ startedLast' = IF after.started # 0 THEN after.started ELSE startedLast
  /\ UNCHANGED rejected

\* withConcurrencyControl(operation): refuse when the queue is full, else push
\* the operation and call processQueue()
Enqueue(op, owner) ==
  /\ nextTicket' = nextTicket + 1
  /\ IF QueueIsFull(operationQueue)
     THEN /\ rejected' = rejected \cup {nextTicket}
          /\ UNCHANGED <<isOperationInProgress, operationQueue, running, clock,
                         startedLast>>
     ELSE EnqueueThen(processQueue(isOperationInProgress,
                        Append(operationQueue,
                               [ticket |-> nextTicket, op |-> op, owner |-> owner]),
                        running, clock))

\* a UI surface or a content script calls one of the six operations; limit
\* bounds the number of calls in a behaviour
Submit(op, limit) ==
  /\ nextTicket <= limit
  /\ Enqueue(op, "caller")
  /\ UNCHANGED <<storage, importRun, settled, expected, serialOrder, otherVars>>

\* res is what the body computed from the document it loaded
LoadThen(body, res) ==
  IF res.outcome = "write"
  THEN /\ running' = {b \in running : b.ticket # body.ticket} \cup
                        {[body EXCEPT !.pc = "quota", !.state = res.state]}
       /\ clock' = clock + 1
       /\ UNCHANGED <<storage, isOperationInProgress, operationQueue,
                      nextTicket, importRun, settled, startedLast,
                      expected, serialOrder, rejected>>
  ELSE Settle(body, IF res.outcome = "throw" THEN "rejected" ELSE "resolved",
              res.state, res.error, storage, clock + 1, FALSE)

\* getTagState() resolves: the body normalizes, validates and mutates in memory,
\* and either throws, returns early or calls setTagState(state)
Load ==
  \E body \in running :
    /\ body.pc = "load"
    /\ LoadThen([body EXCEPT !.now = clock], Body(body.op, getTagState, clock))
    /\ UNCHANGED otherVars

\* QUOTA_BLOCK_THRESHOLD = 0.95, as a percentage
QUOTA_BLOCK_THRESHOLD == 95

\* the usage of sync storage that getStorageUsage() may report, in percent:
\* below the block threshold, at it, above it
UsageLevels == {94, 95, 100}

\* checkStorageQuota that blocks above the threshold only
checkStorageQuotaAbove(percentUsed) == percentUsed > QUOTA_BLOCK_THRESHOLD

\* checkStorageQuota(): shouldBlock
checkStorageQuota(percentUsed) == percentUsed >= QUOTA_BLOCK_THRESHOLD

\* the message of the error setTagState throws when the quota check blocks:
\* the error thrown in the try mentions 'quota', so the catch replaces it
QuotaExceededMessage ==
  "Storage quota exceeded. Please reduce your data usage. Suggestions: 1. Export your tags and assignments, then delete unused tags 2. Remove tag assignments from streamers you no longer follow 3. Delete old custom tags you no longer use 4. Consider using fewer tags or shorter tag names"

\* checkStorageQuota() resolves inside setTagState: at or above the block
\* threshold setTagState throws before storageSet, below it storageSet is
\* called; usage records the percentage the check that passed had read
Quota ==
  \E body \in running, percentUsed \in UsageLevels :
    /\ body.pc = "quota"
    /\ IF checkStorageQuota(percentUsed)
       THEN Settle(body, "rejected", body.state, QuotaExceededMessage, storage, clock, TRUE)
       ELSE /\ running' = (running \ {body}) \cup
                             {[body EXCEPT !.pc = "write", !.usage = percentUsed]}
            /\ UNCHANGED <<storage, isOperationInProgress, operationQueue, clock,
                           nextTicket, importRun, settled, startedLast, expected,
                           serialOrder, rejected>>
    /\ UNCHANGED otherVars

\* storageSet('sync', {tagState: state}) settles: the whole value is replaced,
\* or the write fails and setTagState rethrows
WriteDone ==
  \E body \in running, ok \in BOOLEAN :
    /\ body.pc = "write"
    /\ Settle(body, IF ok THEN "resolved" ELSE "rejected", body.state,
              IF ok THEN "" ELSE "storage error",
              IF ok THEN body.state ELSE storage, clock, ~ok)
    /\ UNCHANGED otherVars

\* handleImport(payload): validate, then await resetTagStateToDefault()
ImportCall(payload) ==
  /\ importRun.pc = "idle"
  /\ nextTicket <= MaxCalls
  /\ UNCHANGED otherVars
  /\ IF ~validateImportPayload(payload)
     THEN /\ importRun' = NoImport("rejected")
          /\ UNCHANGED <<storage, isOperationInProgress, operationQueue, running,
                         clock, nextTicket, settled, startedLast, expected,
                         serialOrder, rejected>>
     ELSE /\ Enqueue(ResetOp, "import")
          /\ importRun' = IF QueueIsFull(operationQueue) THEN NoImport("rejected")
                          ELSE [pc |-> "reset", payload |-> payload,
                                state |-> defaultTagState, outcome |-> "none",
                                before |-> storage, usage |-> 0]
          /\ UNCHANGED <<storage, settled, expected, serialOrder>>

\* checkStorageQuota() resolves inside the setTagState(normalized) of handleImport
ImportQuota ==
  \E percentUsed \in UsageLevels :
    /\ importRun.pc = "quota"
    /\ importRun' = IF checkStorageQuota(percentUsed) THEN NoImport("rejected")
                    ELSE [importRun EXCEPT !.pc = "write", !.usage = percentUsed]
    /\ UNCHANGED <<storage, isOperationInProgress, operationQueue, running, clock,
                   nextTicket, settled, startedLast, expected, serialOrder, rejected,
                   otherVars>>

\* the storageSet of handleImport settles
ImportWrite ==
  \E ok \in BOOLEAN :
    /\ importRun.pc = "write"
    /\ storage' = IF ok THEN importRun.state ELSE storage
    /\ importRun' = NoImport(IF ok THEN "resolved" ELSE "rejected")
    /\ UNCHANGED <<isOperationInProgress, operationQueue, running, clock,
                   nextTicket, settled, startedLast, expected, serialOrder, rejected,
                   otherVars>>

----------------------------------------------------------------------------
(* The follow cache (src/background/followCache.js) over the credentials   *)
(* (src/background/oauth.js).  Times are milliseconds.                      *)

Minute == 60 * 1000
FOLLOW_CACHE_TTL_MS == 5 * 60 * 1000
TOKEN_EXPIRY_BUFFER_MS == 60 * 1000

\* getAuthState() / getFollowCache() when nothing is stored
NoAuth == [accessToken |-> "", expiresAt |-> 0]
NoCache == [fetchedAt |-> -1, items |-> EmptyMap]

\* expiresAt = 0 is a stored state without expiresAt
isValidAuthState(state, now) ==
  IF state.accessToken = "" THEN FALSE
  ELSE IF state.expiresAt = 0 THEN TRUE
  ELSE state.expiresAt - TOKEN_EXPIRY_BUFFER_MS > now

getAuthStatus(state, now) == IF isValidAuthState(state, now) THEN state ELSE NoAuth

\* signOut that leaves the stored credentials in place
signOutKeeping(state) == state

\* signOut(): clearAuthState() removes the key
signOut(state) == NoAuth

\* the cached value is served without a rebuild although it has reached the TTL
ServesCachedInclusive(force, cached, now) ==
  ~force /\ cached # NoCache /\ cached.fetchedAt + FOLLOW_CACHE_TTL_MS >= now

\* refreshFollowCache: !force && cached && cached.fetchedAt + TTL > Date.now()
ServesCached(force, cached, now) ==
  ~force /\ cached # NoCache /\ cached.fetchedAt + FOLLOW_CACHE_TTL_MS > now

\* the preferences a call holds before it has read them
NoPreferences == [notificationsEnabled |-> FALSE, notificationMaxStreamAgeMinutes |-> 0]

\* parseTokenFromRedirect(redirectUri) when it returns null
NoToken == [accessToken |-> "", expiresIn |-> 0, state |-> 0]

\* a call in progress: kind is the exported function called, pc the await it
\* is suspended at; auth, tagState and prefs are what it has read so far
Call(id, kind, force) ==
  [id |-> id, kind |-> kind, force |-> force, pc |-> "auth", cache |-> NoCache,
   status |-> 0, readAt |-> -1, cachedAt |-> -1, builtAt |-> -1,
   starredIds |-> {}, changedStreamerId |-> "", phase |-> "first", pending |-> {},
   text |-> "", auth |-> NoAuth, tagState |-> defaultTagState, prefs |-> NoPreferences,
   stateToken |-> 0, tokenResult |-> NoToken]

NoneReturned == [call |-> Call(0, "none", FALSE), outcome |-> "none", cache |-> NoCache,
                 status |-> 0]

At(c, pc) == (calls \ {c}) \cup {[c EXCEPT !.pc = pc]}

\* the exported function called returns or throws to its caller
Finish(c, outcome, cache, status) ==
  /\ calls' = {d \in calls : d.id # c.id}
  /\ returned' = [call |-> c, outcome |-> outcome, cache |-> cache, status |-> status]

\* the call goes on to its next await
Continue(c) ==
  /\ calls' = {d \in calls : d.id # c.id} \cup {c}
  /\ UNCHANGED returned

----------------------------------------------------------------------------
(* Live tracking (src/background/liveTracking.js).  A startedAt of 0 is a   *)
(* missing start time (null); cache items are keyed by streamer id and     *)
(* carry isLive and the parsed startedAt.                                   *)

NoEntry == [isLive |-> FALSE, startedAt |-> 0]

LiveEntry(item) == [isLive |-> TRUE, startedAt |-> item.startedAt]

\* the ids whose assignment lists include 'favorite'
StarredIds(assignments) ==
  {s \in DOMAIN assignments : Includes(assignments[s], STARRED_TAG_ID)}

getLiveStarredCount(state) == Cardinality({s \in DOMAIN state : state[s].isLive})

\* updateLiveBadge(liveCount): the text handed to setBadgeText
BadgeText(liveCount) == IF liveCount > 0 THEN StringOf(liveCount) ELSE ""

\* liveStatusMap.get(id) === true / === false
IsCurrentlyLive(items, s) == s \in DOMAIN items /\ items[s].isLive
IsCurrentlyOffline(items, s) == s \in DOMAIN items /\ ~items[s].isLive

\* syncLiveAssignments: the two loops over liveState and starredIds
Synced(state, starredIds, items) ==
  LET kept == DOMAIN state \cap starredIds
      added == {s \in starredIds \ DOMAIN state : IsCurrentlyLive(items, s)}
  IN [s \in kept \cup added |->
        IF s \in added THEN LiveEntry(items[s])
        ELSE IF state[s].isLive /\ IsCurrentlyOffline(items, s) THEN NoEntry
        ELSE IF IsCurrentlyLive(items, s) THEN LiveEntry(items[s])
        ELSE state[s]]

\* syncLiveAssignments: the flag modified after the two loops
SyncModified(state, starredIds, items) ==
  \/ \E s \in DOMAIN state :
        \/ s \notin starredIds
        \/ state[s].isLive /\ IsCurrentlyOffline(items, s)
        \/ /\ ~(state[s].isLive /\ IsCurrentlyOffline(items, s))
           /\ IsCurrentlyLive(items, s)
           /\ (~state[s].isLive \/ state[s].startedAt # items[s].startedAt)
  \/ \E s \in starredIds \ DOMAIN state : IsCurrentlyLive(items, s)

\* runLiveCheck: maxAgeMs from the preferences
\* a stored notificationMaxStreamAgeMinutes that Number() does not turn into
\* a finite number; the stored numbers of the model are not negative
NotANumber == -1

\* getPreferences() handing out the stored maximum stream age as it is
getPreferencesUnclamped(stored) == stored

\* getPreferences(): the stored preferences over the defaults, the maximum
\* stream age rounded and clamped (the default when it is not a finite number)
getPreferences(stored) ==
  [stored EXCEPT !.notificationMaxStreamAgeMinutes =
     IF @ = NotANumber THEN DEFAULT_NOTIFICATION_MAX_AGE_MINUTES
     ELSE Min(MAX_NOTIFICATION_MAX_AGE_MINUTES, Max(MIN_NOTIFICATION_MAX_AGE_MINUTES, @))]

MaxAgeMs(prefs) ==
  (IF prefs.notificationMaxStreamAgeMinutes > 0
   THEN Min(prefs.notificationMaxStreamAgeMinutes, MAX_NOTIFICATION_MAX_AGE_MINUTES)
   ELSE DEFAULT_NOTIFICATION_MAX_AGE_MINUTES) * Minute

\* runLiveCheck that notifies for every live starred streamer on every run
EligibleWhenLive(previousEntry, item, now, prefs) ==
  prefs.notificationsEnabled /\ item.isLive

\* runLiveCheck: isEligibleForNotification
isEligibleForNotification(previousEntry, item, now, prefs) ==
  LET wasLive == previousEntry.isLive
      startedAtMs == item.startedAt
      hasFreshStart == startedAtMs # 0 /\
                       (previousEntry.startedAt = 0 \/ previousEntry.startedAt # startedAtMs)
  IN /\ prefs.notificationsEnabled
     /\ item.isLive
     /\ startedAtMs # 0
     /\ now - startedAtMs <= MaxAgeMs(prefs)
     /\ (~wasLive \/ hasFreshStart)

\* runLiveCheck: the cached streamers whose assignments include 'favorite'
StarredStreamers(items, assignments) == DOMAIN items \cap StarredIds(assignments)

\* the streamers of the loop that are eligible for a notification
Eligible(state, items, assignments, now, prefs) ==
  {s \in StarredStreamers(items, assignments) :
     isEligibleForNotification(IF s \in DOMAIN state THEN state[s] ELSE NoEntry,
                               items[s], now, prefs)}

\* the login the remote API reports for a streamer: "456" stands for a
\* followed streamer whose login is not a Twitch username
LoginOf(s) == IF s = "456" THEN <<"a", " ", "b">> ELSE <<"a", "b", "_", "1">>

\* isValidTwitchUsername(username): /^[a-zA-Z0-9_]{3,25}$/
isValidTwitchUsername(username) ==
  /\ Len(username) >= 3
  /\ Len(username) <= 25
  /\ \A i \in 1..Len(username) :
       \/ username[i] = "_"
       \/ \E k \in 1..Len(UpperChars) : username[i] \in {UpperChars[k], LowerChars[k]}
       \/ \E k \in 1..Len(DigitChars) : username[i] = DigitChars[k]

\* runLiveCheck: the eligible streamers with a valid login are pushed to
\* pendingNotifications
PendingNotifications(state, items, assignments, now, prefs) ==
  {s \in Eligible(state, items, assignments, now, prefs) :
     isValidTwitchUsername(LoginOf(s))}

\* runLiveCheck: liveState after the loop over the starred streamers and the
\* pruning of the others; for an eligible streamer with an invalid login the
\* loop continues before liveState.set, so its entry stays as it was
Checked(state, items, assignments, now, prefs) ==
  LET skipped == Eligible(state, items, assignments, now, prefs)
                   \ PendingNotifications(state, items, assignments, now, prefs)
      starred == StarredStreamers(items, assignments)
  IN [s \in (starred \ skipped) \cup (skipped \cap DOMAIN state) |->
        IF s \in skipped THEN state[s]
        ELSE [isLive |-> items[s].isLive,
              startedAt |-> IF items[s].isLive THEN items[s].startedAt ELSE 0]]

\* syncLiveAssignments after the cache is known: reconcile, then save and
\* update the badge if anything changed
Reconcile(c, cache) ==
  /\ liveState' = Synced(liveState, c.starredIds, cache.items)
  /\ IF SyncModified(liveState, c.starredIds, cache.items)
     THEN Continue([c EXCEPT !.pc = "save", !.cache = cache])
     ELSE Finish(c, "resolved", cache, 0)
  /\ UNCHANGED <<badge, notifications, preferences, observed, savedLiveState>>

\* syncLiveAssignments resumes after await refreshFollowCache(false): a throw
\* propagates; the refresh is forced when a changed streamer is given and the
\* cache has no items or misses that streamer
SyncResumed(c, outcome, cache, status) ==
  IF outcome = "rejected"
  THEN Finish(c, "rejected", NoCache, status) /\ UNCHANGED liveVars
  ELSE IF /\ c.changedStreamerId # ""
          /\ (DOMAIN cache.items = {} \/ c.changedStreamerId \notin DOMAIN cache.items)
  THEN /\ Continue([c EXCEPT !.pc = "auth", !.force = TRUE, !.phase = "forced",
                             !.cache = cache])
       /\ UNCHANGED liveVars
  ELSE Reconcile(c, cache)

\* syncLiveAssignments resumes after the try around await refreshFollowCache(true)
SyncRefreshed(c, outcome, cache) ==
  Reconcile(c, IF outcome = "resolved" /\ cache # NoCache THEN cache ELSE c.cache)

\* runLiveCheck resumes after await refreshFollowCache(false)
CheckResumed(c, outcome, cache, status) ==
  /\ IF outcome = "rejected" THEN Finish(c, "rejected", NoCache, status)
     ELSE IF cache = NoCache THEN Finish(c, "resolved", NoCache, 0)
     ELSE Continue([c EXCEPT !.pc = "prefs", !.cache = cache])
  /\ UNCHANGED liveVars

\* getDashboardPayload without the try/catch around refreshFollowCache
DashboardResumedUncaught(c, outcome, cache, status) ==
  /\ IF outcome = "rejected" THEN Finish(c, "rejected", NoCache, status)
     ELSE IF cache = NoCache
     THEN Continue([c EXCEPT !.pc = "dashStored", !.phase = "null"])
     ELSE Finish([c EXCEPT !.tagState = normalizeTagState(c.tagState, clock)],
                 "resolved", cache, 0)
  /\ UNCHANGED liveVars

\* getDashboardPayload resumes after await refreshFollowCache(forceRefresh):
\* with a cache it returns; with null, or in the catch of a throw, it goes on
\* to getStoredFollowCache()
DashboardResumed(c, outcome, cache, status) ==
  /\ IF outcome = "rejected"
     THEN Continue([c EXCEPT !.pc = "dashStored", !.phase = "caught"])
     ELSE IF cache = NoCache
     THEN Continue([c EXCEPT !.pc = "dashStored", !.phase = "null"])
     ELSE Finish([c EXCEPT !.tagState = normalizeTagState(c.tagState, clock)],
                 "resolved", cache, 0)
  /\ UNCHANGED liveVars

\* refreshFollowCache settles: it returns cache (NoCache is null) or throws an
\* error carrying status, and its caller resumes
SettleCall(c, outcome, cache, status) ==
  IF c.kind = "sync"
  THEN IF c.phase = "first" THEN SyncResumed(c, outcome, cache, status)
       ELSE SyncRefreshed(c, outcome, cache)
  ELSE IF c.kind = "check" THEN CheckResumed(c, outcome, cache, status)
  ELSE IF c.kind = "dashboard" THEN DashboardResumed(c, outcome, cache, status)
  ELSE Finish(c, outcome, cache, status) /\ UNCHANGED liveVars

----------------------------------------------------------------------------
(* refreshFollowCache *)

\* the rebuild that call c issued failed
Failed(log, c, failed) ==
  IF c.id \in DOMAIN log THEN [log EXCEPT ![c.id].failed = failed] ELSE log

\* a surface calls refreshFollowCache(force); at most inFlight calls overlap
refreshFollowCache(force, inFlight) ==
  /\ nextCall <= MaxRefreshes
  /\ Cardinality(calls) < inFlight
  /\ calls' = calls \cup {Call(nextCall, "refresh", force)}
  /\ nextCall' = nextCall + 1
  /\ UNCHANGED <<authState, followCache, remote, returned, rebuilds, broadcasts, liveVars>>

\* await getAuthStatus() resolves
AuthStatusRead ==
  \E c \in calls :
    /\ c.pc = "auth"
    /\ calls' = At(c, IF isValidAuthState(authState, clock) THEN "read" ELSE "renew")
    /\ UNCHANGED <<authState, followCache, remote, nextCall, returned, rebuilds,
                   broadcasts, liveVars>>

\* await ensureAuth({interactive: false}) settles: credentials stored meanwhile
\* are returned; else the silent flow stores renewed credentials, or needs the
\* user ('Authentication required': refreshFollowCache returns null), or fails
\* otherwise (the error is rethrown); the catch of startOAuthFlow clears the
\* stored credentials before either error
EnsureAuth ==
  \E c \in calls, flow \in {"renewed", "required", "failed"} :
    /\ c.pc = "renew"
    /\ IF isValidAuthState(authState, clock)
       THEN /\ flow = "renewed"
            /\ calls' = At(c, "read")
            /\ UNCHANGED <<authState, returned, liveVars>>
       ELSE IF flow = "renewed"
       THEN /\ authState' = [accessToken |-> "token", expiresAt |-> clock + 60 * Minute]
            /\ calls' = At(c, "read")
            /\ UNCHANGED <<returned, liveVars>>
       ELSE /\ authState' = NoAuth
            /\ SettleCall(c, IF flow = "failed" THEN "rejected" ELSE "resolved", NoCache, 0)
    /\ UNCHANGED <<followCache, remote, nextCall, rebuilds, broadcasts>>

\* await getFollowCache() resolves: the cached value is returned, or
\* buildFollowSnapshot is called
CacheRead ==
  \E c \in calls :
    /\ c.pc = "read"
    /\ IF ServesCached(c.force, followCache, clock)
       THEN /\ SettleCall([c EXCEPT !.readAt = clock, !.cachedAt = followCache.fetchedAt],
                          "resolved", followCache, 0)
            /\ UNCHANGED rebuilds
       ELSE /\ calls' = (calls \ {c}) \cup
                           {[c EXCEPT !.pc = "build", !.readAt = clock,
                                      !.cachedAt = followCache.fetchedAt]}
            /\ rebuilds' = IF c.force THEN rebuilds
                           ELSE Put(rebuilds, c.id, [readAt |-> clock, failed |-> FALSE])
            /\ UNCHANGED <<returned, liveVars>>
    /\ UNCHANGED <<authState, followCache, remote, nextCall, broadcasts>>

\* await buildFollowSnapshot(...) settles: with the items the remote API
\* reports (setFollowCache is called with them and Date.now()), or with an
\* error carrying the HTTP status
SnapshotBuilt ==
  \E c \in calls, status \in {200, 401, 403, 500} :
    /\ c.pc = "build"
    /\ rebuilds' = Failed(rebuilds, c, status # 200)
    /\ IF status = 200
       THEN /\ calls' = (calls \ {c}) \cup
                           {[c EXCEPT !.pc = "store", !.builtAt = clock,
                                      !.cache = [fetchedAt |-> clock, items |-> remote]]}
            /\ UNCHANGED <<returned, liveVars>>
       ELSE IF status \in {401, 403}
       THEN /\ calls' = (calls \ {c}) \cup {[c EXCEPT !.pc = "signOut", !.status = status]}
            /\ UNCHANGED <<returned, liveVars>>
       ELSE SettleCall(c, "rejected", NoCache, status)
    /\ UNCHANGED <<authState, followCache, remote, nextCall, broadcasts>>

\* setFollowCache that leaves the new cache behind when it fails
CacheStoredTorn ==
  \E c \in calls, ok \in BOOLEAN :
    /\ c.pc = "store"
    /\ followCache' = c.cache
    /\ rebuilds' = Failed(rebuilds, c, ~ok)
    /\ SettleCall(c, IF ok THEN "resolved" ELSE "rejected", IF ok THEN c.cache ELSE NoCache, 0)
    /\ UNCHANGED <<authState, remote, nextCall, broadcasts>>

\* await setFollowCache(cache) settles: stored, or the write failed and the
\* error (without status) is rethrown
CacheStored ==
  \E c \in calls, ok \in BOOLEAN :
    /\ c.pc = "store"
    /\ followCache' = IF ok THEN c.cache ELSE followCache
    /\ rebuilds' = Failed(rebuilds, c, ~ok)
    /\ SettleCall(c, IF ok THEN "resolved" ELSE "rejected", IF ok THEN c.cache ELSE NoCache, 0)
    /\ UNCHANGED <<authState, remote, nextCall, broadcasts>>

\* await signOut() resolves
SignedOut ==
  \E c \in calls :
    /\ c.pc = "signOut"
    /\ authState' = signOut(authState)
    /\ calls' = At(c, "clear")
    /\ UNCHANGED <<followCache, remote, nextCall, returned, rebuilds, broadcasts, liveVars>>

\* await clearFollowCache() resolves
CacheCleared ==
  \E c \in calls :
    /\ c.pc = "clear"
    /\ followCache' = NoCache
    /\ calls' = At(c, "broadcast")
    /\ UNCHANGED <<authState, remote, nextCall, returned, rebuilds, broadcasts, liveVars>>

\* what broadcastAuthStatus() sends to the other surfaces: the auth status
broadcastAuthStatus(state, now) == getAuthStatus(state, now)

\* await broadcastAuthStatus() resolves; the caught error is rethrown
AuthBroadcast ==
  \E c \in calls :
    /\ c.pc = "broadcast"
    /\ broadcasts' = Append(broadcasts, broadcastAuthStatus(authState, clock))
    /\ SettleCall(c, "rejected", NoCache, c.status)
    /\ UNCHANGED <<authState, followCache, remote, nextCall, rebuilds>>

----------------------------------------------------------------------------
(* startOAuthFlow (background/oauth.js).  A state token is a positive       *)
(* number, 0 a state parameter that is missing; the token generated for a   *)
(* flow is the number of its call, so that no two flows share one.          *)

\* the redirect URLs launchWebAuthFlow may resolve with for a flow whose state
\* token is stateToken: without fragment, without access_token, or with a
\* token and a state that is missing, the flow's own, or another value
Redirects(stateToken) ==
  {[fragment |-> FALSE, accessToken |-> "", expiresIn |-> 0, state |-> 0],
   [fragment |-> TRUE, accessToken |-> "", expiresIn |-> 0, state |-> stateToken]}
  \cup {[fragment |-> TRUE, accessToken |-> "token", expiresIn |-> expiresIn, state |-> state] :
          expiresIn \in {0, 3600}, state \in {0, stateToken, stateToken + 1}}

parseTokenFromRedirect(redirect) ==
  IF ~redirect.fragment \/ redirect.accessToken = "" THEN NoToken
  ELSE [accessToken |-> redirect.accessToken, expiresIn |-> redirect.expiresIn,
        state |-> redirect.state]

\* the negation of: tokenResult.state && tokenResult.state !== stateToken
StateAccepted(state, stateToken) == ~(state # 0 /\ state # stateToken)

\* a surface calls startOAuthFlow({interactive}): the state token is generated
\* and launchWebAuthFlow is awaited; at most inFlight calls overlap
startOAuthFlow(interactive, inFlight) ==
  /\ nextCall <= MaxRefreshes
  /\ Cardinality(calls) < inFlight
  /\ calls' = calls \cup {[Call(nextCall, "oauth", interactive) EXCEPT
                             !.pc = "oauthLaunch", !.stateToken = nextCall]}
  /\ nextCall' = nextCall + 1
  /\ UNCHANGED <<authState, followCache, remote, returned, rebuilds, broadcasts, liveVars>>

\* await launchWebAuthFlow(...) settles: it throws, or the redirect is parsed
\* and the token and the state are checked; fetchCurrentUser is awaited next,
\* or clearAuthState in the catch
RedirectReceived ==
  \E c \in calls, launched \in BOOLEAN :
    \E redirect \in Redirects(c.stateToken) :
      /\ c.pc = "oauthLaunch"
      /\ LET tokenResult == parseTokenFromRedirect(redirect)
         IN IF launched /\ tokenResult # NoToken
                /\ StateAccepted(tokenResult.state, c.stateToken)
            THEN calls' = (calls \ {c}) \cup
                            {[c EXCEPT !.pc = "oauthProfile", !.tokenResult = tokenResult]}
            ELSE calls' = At(c, "oauthCleanup")
      /\ UNCHANGED <<authState, followCache, remote, nextCall, returned, rebuilds,
                     broadcasts, liveVars>>

\* await fetchCurrentUser(accessToken) settles: with a profile, and
\* setAuthState(state) is awaited, expiresAt being null (0) without expires_in;
\* or without a usable profile
ProfileFetched ==
  \E c \in calls, ok \in BOOLEAN :
    /\ c.pc = "oauthProfile"
    /\ IF ok
       THEN calls' = (calls \ {c}) \cup
                       {[c EXCEPT !.pc = "oauthSave",
                                  !.auth = [accessToken |-> c.tokenResult.accessToken,
                                            expiresAt |->
                                              IF c.tokenResult.expiresIn # 0
                                              THEN clock + c.tokenResult.expiresIn * 1000
                                              ELSE 0]]}
       ELSE calls' = At(c, "oauthCleanup")
    /\ UNCHANGED <<authState, followCache, remote, nextCall, returned, rebuilds,
                   broadcasts, liveVars>>

\* await setAuthState(state) settles: stored and returned, or the write failed
AuthSaved ==
  \E c \in calls, ok \in BOOLEAN :
    /\ c.pc = "oauthSave"
    /\ IF ok
       THEN /\ authState' = c.auth
            /\ Finish(c, "resolved", NoCache, 0)
       ELSE /\ calls' = At(c, "oauthCleanup")
            /\ UNCHANGED <<authState, returned>>
    /\ UNCHANGED <<followCache, remote, nextCall, rebuilds, broadcasts, liveVars>>

\* await clearAuthState() resolves in the catch, and the error is rethrown
AuthCleanedUp ==
  \E c \in calls :
    /\ c.pc = "oauthCleanup"
    /\ authState' = NoAuth
    /\ Finish(c, "rejected", NoCache, 0)
    /\ UNCHANGED <<followCache, remote, nextCall, rebuilds, broadcasts, liveVars>>

----------------------------------------------------------------------------
(* addStreamerToCache, removeStreamerFromCache.  A streamer is named by its *)
(* id: the remote API maps each login to one id.                            *)

\* what fetchStreamsByUserIds reports for streamer s: its stream, or none
StreamOf(s) == IF s \in DOMAIN remote THEN remote[s] ELSE NoEntry

\* the cache with the entry of streamer s replaced or added
WithStreamer(cache, s, entry) == [cache EXCEPT !.items = Put(cache.items, s, entry)]

\* the cache without the entry of streamer s
WithoutStreamer(cache, s) ==
  [cache EXCEPT !.items = [x \in (DOMAIN cache.items) \ {s} |-> cache.items[x]]]

\* a surface calls addStreamerToCache(token, login of s); at most inFlight
\* calls overlap
addStreamerToCache(s, inFlight) ==
  /\ nextCall <= MaxRefreshes
  /\ Cardinality(calls) < inFlight
  /\ calls' = calls \cup {[Call(nextCall, "add", FALSE) EXCEPT !.pc = "addFetch",
                                                               !.changedStreamerId = s]}
  /\ nextCall' = nextCall + 1
  /\ UNCHANGED <<authState, followCache, remote, returned, rebuilds, broadcasts, liveVars>>

\* the awaits of fetchUsersByLogins, fetchStreamsByUserIds and
\* getLastSeenLive settle: the user is unknown (return), a fetch failed (the
\* error is caught), or the entry is built at Date.now() and getFollowCache()
\* is awaited
StreamerFetched ==
  \E c \in calls, fetched \in {"found", "unknown", "failed"} :
    /\ c.pc = "addFetch"
    /\ IF fetched = "found"
       THEN /\ calls' = (calls \ {c}) \cup
                           {[c EXCEPT !.pc = "addRead", !.builtAt = clock,
                                      !.cache = WithStreamer(NoCache, c.changedStreamerId,
                                                             StreamOf(c.changedStreamerId))]}
            /\ UNCHANGED returned
       ELSE Finish(c, "resolved", NoCache, 0)
    /\ UNCHANGED <<authState, followCache, remote, nextCall, rebuilds, broadcasts, liveVars>>

\* await getFollowCache() resolves in addStreamerToCache: the entry replaces
\* or extends the items of the cache read, or of {fetchedAt: now, items: []}
\* when nothing is cached, and setFollowCache(cache) is awaited
AddCacheRead ==
  \E c \in calls :
    /\ c.pc = "addRead"
    /\ LET cache == IF followCache = NoCache
                    THEN [fetchedAt |-> c.builtAt, items |-> EmptyMap]
                    ELSE followCache
       IN calls' = (calls \ {c}) \cup
                     {[c EXCEPT !.pc = "editStore", !.readAt = clock,
                                !.cachedAt = followCache.fetchedAt,
                                !.cache = WithStreamer(cache, c.changedStreamerId,
                                                       c.cache.items[c.changedStreamerId])]}
    /\ UNCHANGED <<authState, followCache, remote, nextCall, returned, rebuilds,
                   broadcasts, liveVars>>

\* a surface calls removeStreamerFromCache(login of s); at most inFlight calls
\* overlap
removeStreamerFromCache(s, inFlight) ==
  /\ nextCall <= MaxRefreshes
  /\ Cardinality(calls) < inFlight
  /\ calls' = calls \cup {[Call(nextCall, "remove", FALSE) EXCEPT !.pc = "removeRead",
                                                                  !.changedStreamerId = s]}
  /\ nextCall' = nextCall + 1
  /\ UNCHANGED <<authState, followCache, remote, returned, rebuilds, broadcasts, liveVars>>

\* await getFollowCache() resolves in removeStreamerFromCache: nothing is
\* cached or the streamer is not in the items (return), or setFollowCache is
\* awaited with the cache read, without the streamer
RemoveCacheRead ==
  \E c \in calls :
    /\ c.pc = "removeRead"
    /\ IF followCache = NoCache \/ c.changedStreamerId \notin DOMAIN followCache.items
       THEN Finish(c, "resolved", NoCache, 0)
       ELSE /\ calls' = (calls \ {c}) \cup
                           {[c EXCEPT !.pc = "editStore", !.readAt = clock,
                                      !.cachedAt = followCache.fetchedAt,
                                      !.cache = WithoutStreamer(followCache,
                                                                c.changedStreamerId)]}
            /\ UNCHANGED returned
    /\ UNCHANGED <<authState, followCache, remote, nextCall, rebuilds, broadcasts, liveVars>>

\* await setFollowCache(cache) settles in addStreamerToCache or
\* removeStreamerFromCache: stored, or the write failed and the error is caught
EditStored ==
  \E c \in calls, ok \in BOOLEAN :
    /\ c.pc = "editStore"
    /\ followCache' = IF ok THEN c.cache ELSE followCache
    /\ Finish(c, "resolved", NoCache, 0)
    /\ UNCHANGED <<authState, remote, nextCall, rebuilds, broadcasts, liveVars>>

----------------------------------------------------------------------------
(* getDashboardPayload (background/dashboard) *)

\* a surface calls getDashboardPayload({forceRefresh}); at most inFlight calls
\* overlap
getDashboardPayload(forceRefresh, inFlight) ==
  /\ nextCall <= MaxRefreshes
  /\ Cardinality(calls) < inFlight
  /\ calls' = calls \cup {[Call(nextCall, "dashboard", forceRefresh) EXCEPT !.pc = "dashRead"]}
  /\ nextCall' = nextCall + 1
  /\ UNCHANGED <<authState, followCache, remote, returned, rebuilds, broadcasts, liveVars>>

\* await Promise.all([getTagState(), getPreferences()]) resolves
DashboardRead ==
  \E c \in calls :
    /\ c.pc = "dashRead"
    /\ calls' = (calls \ {c}) \cup
                   {[c EXCEPT !.pc = "dashAuth", !.tagState = getTagState,
                              !.prefs = getPreferences(preferences)]}
    /\ UNCHANGED <<authState, followCache, remote, nextCall, returned, rebuilds,
                   broadcasts, liveVars>>

\* await getAuthStatus() resolves: signed in, refreshFollowCache(forceRefresh)
\* is called; signed out, the payload is returned without a cache
DashboardAuthRead ==
  \E c \in calls :
    /\ c.pc = "dashAuth"
    /\ LET auth == getAuthStatus(authState, clock)
       IN IF auth # NoAuth
          THEN Continue([c EXCEPT !.pc = "auth", !.auth = auth])
          ELSE Finish([c EXCEPT !.auth = auth,
                                !.tagState = normalizeTagState(c.tagState, clock)],
                      "resolved", NoCache, 0)
    /\ UNCHANGED <<authState, followCache, remote, nextCall, rebuilds, broadcasts,
                   liveVars>>

\* await getStoredFollowCache() resolves; in the catch getAuthStatus() is
\* awaited next, else the payload is returned
DashboardStoredRead ==
  \E c \in calls :
    /\ c.pc = "dashStored"
    /\ IF c.phase = "caught"
       THEN Continue([c EXCEPT !.pc = "dashReauth", !.cache = followCache])
       ELSE Finish([c EXCEPT !.tagState = normalizeTagState(c.tagState, clock)],
                   "resolved", followCache, 0)
    /\ UNCHANGED <<authState, followCache, remote, nextCall, rebuilds, broadcasts,
                   liveVars>>

\* the second await getAuthStatus(), in the catch, resolves
DashboardReauth ==
  \E c \in calls :
    /\ c.pc = "dashReauth"
    /\ Finish([c EXCEPT !.auth = getAuthStatus(authState, clock),
                        !.tagState = normalizeTagState(c.tagState, clock)],
              "resolved", c.cache, 0)
    /\ UNCHANGED <<authState, followCache, remote, nextCall, rebuilds, broadcasts,
                   liveVars>>

\* the object getDashboardPayload returned, r being the settled call: follows
\* is cache.items or [] and fetchedAt null (0) without a cache
DashboardPayload(r) ==
  [auth |-> r.call.auth,
   follows |-> IF r.cache # NoCache THEN r.cache.items ELSE EmptyMap,
   fetchedAt |-> IF r.cache # NoCache THEN r.cache.fetchedAt ELSE 0,
   tagState |-> r.call.tagState,
   preferences |-> r.call.prefs]

----------------------------------------------------------------------------
(* syncLiveAssignments and runLiveCheck *)

\* the handler of an assignment change calls syncLiveAssignments with the
\* assignments of the document updateAssignment returned and the streamer
\* changed; at most inFlight calls of liveTracking.js overlap
syncLiveAssignments(inFlight) ==
  /\ nextCall <= MaxLiveCalls
  /\ Cardinality(calls) < inFlight
  /\ settled.outcome = "resolved"
  /\ settled.op.kind = "updateAssignment"
  /\ calls' = calls \cup
                {[Call(nextCall, "sync", FALSE) EXCEPT
                    !.starredIds = StarredIds(settled.state.assignments),
                    !.changedStreamerId = settled.op.streamerId]}
  /\ nextCall' = nextCall + 1
  /\ UNCHANGED <<authState, followCache, remote, returned, rebuilds, broadcasts, liveVars>>

\* an alarm, the initialization or a manual trigger starts runLiveCheck()
runLiveCheck(inFlight) ==
  /\ nextCall <= MaxLiveCalls
  /\ Cardinality(calls) < inFlight
  /\ calls' = calls \cup {[Call(nextCall, "check", FALSE) EXCEPT !.pc = "checkAuth"]}
  /\ nextCall' = nextCall + 1
  /\ UNCHANGED <<authState, followCache, remote, returned, rebuilds, broadcasts, liveVars>>

\* runLiveCheck: await getAuthStatus() resolves; signed out, clearLiveState()
\* empties the map and saves it, else refreshFollowCache(false) is called
CheckAuthRead ==
  \E c \in calls :
    /\ c.pc = "checkAuth"
    /\ IF isValidAuthState(authState, clock)
       THEN /\ calls' = At(c, "auth")
            /\ UNCHANGED liveState
       ELSE /\ liveState' = EmptyMap
            /\ calls' = (calls \ {c}) \cup {[c EXCEPT !.pc = "save", !.phase = "clear"]}
    /\ UNCHANGED <<authState, followCache, remote, nextCall, returned, rebuilds,
                   broadcasts, badge, notifications, preferences, observed,
                   savedLiveState>>

\* runLiveCheck: await getPreferences() resolves
PreferencesRead ==
  \E c \in calls :
    /\ c.pc = "prefs"
    /\ calls' = (calls \ {c}) \cup
                   {[c EXCEPT !.pc = "tags", !.prefs = getPreferences(preferences)]}
    /\ UNCHANGED <<authState, followCache, remote, nextCall, returned, rebuilds,
                   broadcasts, liveVars>>

\* runLiveCheck: await getTagState() resolves; the starred streamers of the
\* cache are evaluated against liveState, which is updated and pruned
TagStateRead ==
  \E c \in calls :
    /\ c.pc = "tags"
    /\ LET assignments == normalizeTagState(storage, clock).assignments
           items == c.cache.items
           pending == PendingNotifications(liveState, items, assignments, clock, c.prefs)
       IN /\ liveState' = Checked(liveState, items, assignments, clock, c.prefs)
          /\ observed' = Append(observed,
                                [run |-> c.id, at |-> clock, tracked |-> liveState,
                                 seen |-> [s \in StarredStreamers(items, assignments) |->
                                             items[s]]])
          /\ calls' = (calls \ {c}) \cup
                         {[c EXCEPT !.pc = IF pending = {} THEN "save" ELSE "notify",
                                    !.pending = pending]}
    /\ UNCHANGED <<authState, followCache, remote, nextCall, returned, rebuilds,
                   broadcasts, badge, notifications, preferences, savedLiveState>>

\* runLiveCheck: await createLiveNotification(...) settles for the next pending
\* streamer (and the delay before the following one elapses)
NotificationCreated ==
  \E c \in calls :
    /\ c.pc = "notify"
    /\ LET s == CHOOSE x \in c.pending : TRUE
       IN /\ notifications' = Append(notifications, [run |-> c.id, id |-> s])
          /\ calls' = (calls \ {c}) \cup
                         {[c EXCEPT !.pc = IF c.pending = {s} THEN "save" ELSE "notify",
                                    !.pending = c.pending \ {s}]}
    /\ UNCHANGED <<authState, followCache, remote, nextCall, returned, rebuilds,
                   broadcasts, liveState, badge, preferences, observed,
                   savedLiveState>>

\* await saveLiveState() resolves; updateLiveBadge is called with the count
\* read now (with 0 by clearLiveState)
LiveStateSaved ==
  \E c \in calls :
    /\ c.pc = "save"
    /\ calls' = (calls \ {c}) \cup
                   {[c EXCEPT !.pc = "badge",
                              !.text = BadgeText(IF c.phase = "clear" THEN 0
                                                 ELSE getLiveStarredCount(liveState))]}
    /\ savedLiveState' = liveState
    /\ UNCHANGED <<authState, followCache, remote, nextCall, returned, rebuilds,
                   broadcasts, liveState, badge, notifications, preferences, observed>>

\* await updateLiveBadge(...) resolves: setBadgeText has set the text, and the
\* function returns (runLiveCheck after handing its snapshot to the popup)
BadgeUpdated ==
  \E c \in calls :
    /\ c.pc = "badge"
    /\ badge' = c.text
    /\ Finish(c, "resolved", c.cache, 0)
    /\ UNCHANGED <<authState, followCache, remote, nextCall, rebuilds, broadcasts,
                   liveState, notifications, preferences, observed, savedLiveState>>

----------------------------------------------------------------------------
(* The scheduling of live checks (src/background/liveTracking.js).  A job   *)
(* is a call of handleLiveAlarm, of the fallback timer callback, of         *)
(* ensureLiveChecksRunning, of initializeLiveTracking or of stopLiveChecks  *)
(* that is waiting at an await.  With the alarms API unavailable            *)
(* (extension.alarms undefined) its calls throw synchronously.  duringInit  *)
(* marks an alarm that fired while initializeLiveTracking was executing.    *)

Job(id, kind, trigger, immediate) ==
  [id |-> id, kind |-> kind, trigger |-> trigger, runImmediately |-> immediate,
   pc |-> "running", run |-> 0, result |-> "", logs |-> <<>>, liveCount |-> 0,
   duringInit |-> FALSE]

\* lastRunMeta before any run: {trigger: null, completedAt: 0, success: false}
NoRun == [trigger |-> "", completedAt |-> 0, success |-> FALSE]

\* the live tracking but the badge
trackingVars == <<liveState, notifications, preferences, observed, savedLiveState>>

\* shouldSkipScheduledRun(trigger) that debounces after a run of any trigger
shouldSkipAfterAnyRun(trigger, inFlight, meta, now) ==
  IF trigger # "alarm" /\ trigger # "fallback" THEN FALSE
  ELSE IF inFlight THEN TRUE
  ELSE IF ~meta.success THEN FALSE
  ELSE now - meta.completedAt < RECENT_INITIALIZATION_DEBOUNCE_MS

\* shouldSkipScheduledRun(trigger)
shouldSkipScheduledRun(trigger, inFlight, meta, now) ==
  IF trigger # "alarm" /\ trigger # "fallback" THEN FALSE
  ELSE IF inFlight THEN TRUE
  ELSE IF meta.trigger # "initialization" \/ ~meta.success THEN FALSE
  ELSE now - meta.completedAt < RECENT_INITIALIZATION_DEBOUNCE_MS

\* recordRunMeta(trigger, success)
recordRunMeta(trigger, success, now) ==
  [trigger |-> trigger, completedAt |-> now, success |-> success]

\* scheduleLiveCheckFallback() that sets a timer without clearing the one pending
scheduleWithoutClear(enabled, id, pending, fresh) ==
  IF ~enabled THEN [id |-> 0, timers |-> pending]
  ELSE [id |-> fresh, timers |-> pending \cup {fresh}]

\* scheduleLiveCheckFallback(): the timer id and the pending timers after it
scheduleLiveCheckFallback(enabled, id, pending, fresh) ==
  IF ~enabled THEN [id |-> 0, timers |-> pending]
  ELSE [id |-> fresh, timers |-> (pending \ {id}) \cup {fresh}]

\* clearTimeout(liveCheckTimeoutId) and liveCheckTimeoutId = null, if it is set
TimerCleared ==
  /\ timers' = timers \ {liveCheckTimeoutId}
  /\ liveCheckTimeoutId' = 0

\* scheduleLiveCheckFallback() is called, shouldRunLiveChecks being enabled
Scheduled(enabled) ==
  LET after == scheduleLiveCheckFallback(enabled, liveCheckTimeoutId, timers, nextTimer)
  IN /\ liveCheckTimeoutId' = after.id
     /\ timers' = after.timers
     /\ nextTimer' = IF enabled THEN nextTimer + 1 ELSE nextTimer

\* what runLiveCheck() gave to runLiveCheckAndLog: it threw, or it returned a
\* result skipped for want of credentials or of a cache, or a full result
ResultOf(r) ==
  IF r.outcome = "rejected" THEN "threw"
  ELSE IF r.call.phase = "clear" THEN "no_auth"
  ELSE IF r.cache = NoCache THEN "no_cache"
  ELSE "ok"

\* the jobs after a step of runLiveCheck(): the job whose live check settled
\* in the step resumes in runLiveCheckAndLog and calls logUpdate, which awaits
\* getUpdateLog() inside addUpdateLogEntry
Resumed(j) ==
  IF /\ j.pc = "running"
     /\ \E c \in calls : c.id = j.run
     /\ \A c \in calls' : c.id # j.run
  THEN [j EXCEPT !.pc = "logRead", !.result = ResultOf(returned')]
  ELSE j

\* a step of runLiveCheck() or of refreshFollowCache() inside a job
JobStep(step) ==
  /\ step
  /\ jobs' = {Resumed(j) : j \in jobs}
  /\ UNCHANGED <<storage, isOperationInProgress, operationQueue, running, clock,
                 nextTicket, importRun, settled, startedLast, expected, serialOrder,
                 rejected, normalizeRun, shouldRunLiveChecks, initializationRunInFlight,
                 lastRunMeta, liveCheckTimeoutId, timers, nextTimer, alarm, nextJob,
                 updateLog, completedRuns>>

\* a step of the scheduler leaves the tag document manager and the clock alone
SchedulerStep(step) ==
  /\ step
  /\ UNCHANGED <<storage, isOperationInProgress, operationQueue, running, clock,
                 nextTicket, importRun, settled, startedLast, expected, serialOrder,
                 rejected, normalizeRun>>

\* runLiveCheckAndLog(trigger) is called by job j: the flag is set for an
\* initialization, runLiveCheck() is called and awaits getAuthStatus()
runLiveCheckAndLog(j) ==
  /\ initializationRunInFlight' =
       IF j.trigger = "initialization" THEN TRUE ELSE initializationRunInFlight
  /\ calls' = calls \cup {[Call(nextCall, "check", FALSE) EXCEPT !.pc = "checkAuth"]}
  /\ nextCall' = nextCall + 1
  /\ jobs' = {k \in jobs : k.id # j.id} \cup {[j EXCEPT !.pc = "running", !.run = nextCall]}
  /\ UNCHANGED <<authState, followCache, remote, returned, rebuilds, broadcasts,
                 trackingVars>>

\* the alarm fires and the listener calls handleLiveAlarm(alarm): the run is
\* skipped, or runLiveCheckAndLog('alarm') is called
handleLiveAlarm ==
  /\ alarm.set
  /\ nextJob <= MaxJobs
  /\ nextJob' = nextJob + 1
  /\ IF shouldSkipScheduledRun("alarm", initializationRunInFlight, lastRunMeta, clock)
     THEN UNCHANGED <<followVars, trackingVars, initializationRunInFlight, jobs>>
     ELSE runLiveCheckAndLog([Job(nextJob, "alarm", "alarm", TRUE) EXCEPT
                                !.duringInit = \E k \in jobs : k.kind = "init"])
  /\ UNCHANGED <<badge, shouldRunLiveChecks, lastRunMeta, liveCheckTimeoutId, timers,
                 nextTimer, alarm, updateLog, completedRuns>>

\* a pending timer fires: the callback forgets the timer id; a skipped run
\* returns through the finally block, which calls scheduleLiveCheckFallback();
\* else runLiveCheckAndLog('fallback') is called
TimerFires ==
  \E t \in timers :
    /\ nextJob <= MaxJobs
    /\ nextJob' = nextJob + 1
    /\ IF shouldSkipScheduledRun("fallback", initializationRunInFlight, lastRunMeta, clock)
       THEN LET after == scheduleLiveCheckFallback(shouldRunLiveChecks, 0, timers \ {t},
                                                   nextTimer)
            IN /\ liveCheckTimeoutId' = after.id
               /\ timers' = after.timers
               /\ nextTimer' = IF shouldRunLiveChecks THEN nextTimer + 1 ELSE nextTimer
               /\ UNCHANGED <<followVars, trackingVars, initializationRunInFlight, jobs>>
       ELSE /\ liveCheckTimeoutId' = 0
            /\ timers' = timers \ {t}
            /\ runLiveCheckAndLog(Job(nextJob, "fallback", "fallback", TRUE))
            /\ UNCHANGED nextTimer
    /\ UNCHANGED <<badge, shouldRunLiveChecks, lastRunMeta, alarm, updateLog, completedRuns>>

\* ensureLiveChecksRunning enters startLiveCheckAlarm() (checks not enabled)
\* or goes on: with the alarms API, await alarms.clear(); without it the call
\* throws, the checks are enabled and the fallback timer is scheduled, and
\* the caller awaits the settled promise
Ensured(j) ==
  IF shouldRunLiveChecks
  THEN /\ IF j.runImmediately
          THEN runLiveCheckAndLog(j)
          ELSE /\ jobs' = {k \in jobs : k.id # j.id}
               /\ UNCHANGED <<followVars, trackingVars, initializationRunInFlight>>
       /\ UNCHANGED <<shouldRunLiveChecks, liveCheckTimeoutId, timers, nextTimer>>
  ELSE /\ IF alarm.available
          THEN /\ jobs' = {k \in jobs : k.id # j.id} \cup {[j EXCEPT !.pc = "alarmClear"]}
               /\ UNCHANGED <<shouldRunLiveChecks, liveCheckTimeoutId, timers, nextTimer>>
          ELSE /\ jobs' = {k \in jobs : k.id # j.id} \cup {[j EXCEPT !.pc = "started"]}
               /\ shouldRunLiveChecks' = TRUE
               /\ Scheduled(TRUE)
       /\ UNCHANGED <<followVars, trackingVars, initializationRunInFlight>>

\* a surface calls ensureLiveChecksRunning({runImmediately}) with the default
\* trigger 'manual' (a call that finds the checks enabled and is not to run
\* one returns at once, and is no step)
ensureLiveChecksRunning ==
  \E immediate \in BOOLEAN :
    /\ immediate \/ ~shouldRunLiveChecks
    /\ nextJob <= MaxJobs
    /\ nextJob' = nextJob + 1
    /\ Ensured(Job(nextJob, "ensure", "manual", immediate))
    /\ UNCHANGED <<badge, lastRunMeta, alarm, updateLog, completedRuns>>

\* startLiveCheckAlarm: await alarms.clear(name) resolves
AlarmCleared ==
  \E j \in jobs :
    /\ j.pc = "alarmClear"
    /\ alarm' = [alarm EXCEPT !.set = FALSE]
    /\ jobs' = (jobs \ {j}) \cup {[j EXCEPT !.pc = "alarmCreate"]}
    /\ UNCHANGED <<followVars, liveVars, shouldRunLiveChecks, initializationRunInFlight,
                   lastRunMeta, liveCheckTimeoutId, timers, nextTimer, nextJob, updateLog, completedRuns>>

\* startLiveCheckAlarm: await alarms.create(name, {periodInMinutes}) resolves;
\* the fallback timer is cleared, the checks are enabled, and the function
\* returns to ensureLiveChecksRunning
AlarmCreated ==
  \E j \in jobs :
    /\ j.pc = "alarmCreate"
    /\ alarm' = [alarm EXCEPT !.set = TRUE]
    /\ TimerCleared
    /\ shouldRunLiveChecks' = TRUE
    /\ jobs' = (jobs \ {j}) \cup {[j EXCEPT !.pc = "started"]}
    /\ UNCHANGED <<followVars, liveVars, initializationRunInFlight, lastRunMeta,
                   nextTimer, nextJob, updateLog, completedRuns>>

\* ensureLiveChecksRunning resumes after await startLiveCheckAlarm()
AlarmStarted ==
  \E j \in jobs :
    /\ j.pc = "started"
    /\ IF j.runImmediately
       THEN runLiveCheckAndLog(j)
       ELSE /\ jobs' = jobs \ {j}
            /\ UNCHANGED <<followVars, trackingVars, initializationRunInFlight>>
    /\ UNCHANGED <<badge, shouldRunLiveChecks, lastRunMeta, liveCheckTimeoutId, timers,
                   nextTimer, alarm, nextJob, updateLog, completedRuns>>

\* a surface calls stopLiveChecks(): the checks are disabled; with the alarms
\* API, await alarms.clear(); without it the call throws and the timer is
\* cleared at once
stopLiveChecks ==
  /\ shouldRunLiveChecks' = FALSE
  /\ IF alarm.available
     THEN /\ jobs' = jobs \cup {[Job(nextJob, "stop", "", FALSE) EXCEPT !.pc = "stopClear"]}
          /\ UNCHANGED <<liveCheckTimeoutId, timers>>
     ELSE /\ TimerCleared
          /\ UNCHANGED jobs
  /\ UNCHANGED <<followVars, liveVars, initializationRunInFlight, lastRunMeta, nextTimer,
                 alarm, nextJob, updateLog, completedRuns>>

\* stopLiveChecks: await alarms.clear(name) resolves and the timer is cleared
AlarmStopped ==
  \E j \in jobs :
    /\ j.pc = "stopClear"
    /\ alarm' = [alarm EXCEPT !.set = FALSE]
    /\ TimerCleared
    /\ jobs' = jobs \ {j}
    /\ UNCHANGED <<followVars, liveVars, shouldRunLiveChecks, initializationRunInFlight,
                   lastRunMeta, nextTimer, nextJob, updateLog, completedRuns>>

\* an awaited call of the alarms API rejects: in startLiveCheckAlarm the catch
\* enables the checks and schedules the fallback timer; in stopLiveChecks the
\* catch warns and the timer is cleared
AlarmFailed ==
  \E j \in jobs :
    /\ j.pc \in {"alarmClear", "alarmCreate", "stopClear"}
    /\ IF j.pc = "stopClear"
       THEN /\ TimerCleared
            /\ jobs' = jobs \ {j}
            /\ UNCHANGED <<shouldRunLiveChecks, nextTimer>>
       ELSE /\ shouldRunLiveChecks' = TRUE
            /\ Scheduled(TRUE)
            /\ jobs' = (jobs \ {j}) \cup {[j EXCEPT !.pc = "started"]}
    /\ UNCHANGED <<followVars, liveVars, initializationRunInFlight, lastRunMeta, alarm,
                   nextJob, updateLog, completedRuns>>

\* logUpdate that records every run as a success
LogEntryOfSuccess(j) ==
  [job |-> j.id, trigger |-> j.trigger, success |-> TRUE,
   skipped |-> IF j.result \in {"no_auth", "no_cache"} THEN j.result ELSE ""]

\* logUpdate(trigger, metadata): the entry of the run of job j (the result of
\* runLiveCheck, or success false after a throw), tagged with the job
LogEntry(j) ==
  [job |-> j.id, trigger |-> j.trigger, success |-> j.result # "threw",
   skipped |-> IF j.result \in {"no_auth", "no_cache"} THEN j.result ELSE ""]

\* addUpdateLogEntry: await getUpdateLog() resolves
LogRead ==
  \E j \in jobs :
    /\ j.pc = "logRead"
    /\ jobs' = (jobs \ {j}) \cup {[j EXCEPT !.pc = "logWrite", !.logs = updateLog]}
    /\ UNCHANGED <<followVars, liveVars, shouldRunLiveChecks, initializationRunInFlight,
                   lastRunMeta, liveCheckTimeoutId, timers, nextTimer, alarm, nextJob,
                   updateLog, completedRuns>>

\* addUpdateLogEntry: await storageSet(...) resolves and logUpdate returns.
\* In runLiveCheckAndLog the run is recorded (didRun: not thrown, not
\* skipped), the error is rethrown and the flag of an initialization is
\* reset; the caller catches the error, and the timer callback calls
\* scheduleLiveCheckFallback() in its finally block.  initializeLiveTracking
\* without credentials logs its own entry and records no run.
LogWritten ==
  \E j \in jobs :
    /\ j.pc = "logWrite"
    /\ updateLog' = Append(j.logs, LogEntry(j))
    /\ jobs' = jobs \ {j}
    /\ IF j.result = "signed_out"
       THEN UNCHANGED <<lastRunMeta, initializationRunInFlight, completedRuns>>
       ELSE /\ lastRunMeta' = recordRunMeta(j.trigger, j.result = "ok", clock)
            /\ completedRuns' = Append(completedRuns,
                                       recordRunMeta(j.trigger, j.result = "ok", clock))
            /\ initializationRunInFlight' =
                 IF j.trigger = "initialization" THEN FALSE ELSE initializationRunInFlight
    /\ IF j.kind = "fallback"
       THEN Scheduled(shouldRunLiveChecks)
       ELSE UNCHANGED <<liveCheckTimeoutId, timers, nextTimer>>
    /\ UNCHANGED <<followVars, liveVars, shouldRunLiveChecks, alarm, nextJob>>

\* loadLiveState: await storage.local.get(LIVE_STATE_KEY) resolves and the
\* module map is replaced by the persisted one
LiveStateLoaded ==
  \E j \in jobs :
    /\ j.pc = "load"
    /\ liveState' = savedLiveState
    /\ jobs' = (jobs \ {j}) \cup {[j EXCEPT !.pc = "initAuth"]}
    /\ UNCHANGED <<followVars, badge, notifications, preferences, observed, savedLiveState,
                   shouldRunLiveChecks, initializationRunInFlight, lastRunMeta,
                   liveCheckTimeoutId, timers, nextTimer, alarm, nextJob, updateLog, completedRuns>>

\* initializeLiveTracking: await getAuthStatus() resolves; signed out, the
\* live state is cleared if it has entries (clearLiveState) or the badge is
\* emptied; signed in, updateLiveBadge is called with the live count
InitAuthRead ==
  \E j \in jobs :
    /\ j.pc = "initAuth"
    /\ IF isValidAuthState(authState, clock)
       THEN /\ jobs' = (jobs \ {j}) \cup
                         {[j EXCEPT !.pc = "initBadge",
                                    !.liveCount = getLiveStarredCount(liveState)]}
            /\ UNCHANGED liveState
       ELSE /\ jobs' = (jobs \ {j}) \cup
                         {[j EXCEPT !.pc = IF liveState # EmptyMap THEN "initSave"
                                           ELSE "initBadge",
                                    !.result = "signed_out"]}
            /\ liveState' = EmptyMap
    /\ UNCHANGED <<followVars, badge, notifications, preferences, observed, savedLiveState,
                   shouldRunLiveChecks, initializationRunInFlight, lastRunMeta,
                   liveCheckTimeoutId, timers, nextTimer, alarm, nextJob, updateLog, completedRuns>>

\* clearLiveState: await saveLiveState() resolves
InitStateSaved ==
  \E j \in jobs :
    /\ j.pc = "initSave"
    /\ savedLiveState' = liveState
    /\ jobs' = (jobs \ {j}) \cup {[j EXCEPT !.pc = "initBadge"]}
    /\ UNCHANGED <<followVars, liveState, badge, notifications, preferences, observed,
                   shouldRunLiveChecks, initializationRunInFlight, lastRunMeta,
                   liveCheckTimeoutId, timers, nextTimer, alarm, nextJob, updateLog, completedRuns>>

\* initializeLiveTracking: await updateLiveBadge(...) resolves; signed out,
\* logUpdate('initialization', {success: true}) is called; signed in,
\* ensureLiveChecksRunning({runImmediately: true, trigger: 'initialization'})
InitBadgeUpdated ==
  \E j \in jobs :
    /\ j.pc = "initBadge"
    /\ badge' = BadgeText(j.liveCount)
    /\ IF j.result = "signed_out"
       THEN /\ jobs' = (jobs \ {j}) \cup {[j EXCEPT !.pc = "logRead"]}
            /\ UNCHANGED <<followVars, liveState, notifications, preferences, observed,
                           savedLiveState, shouldRunLiveChecks, initializationRunInFlight,
                           liveCheckTimeoutId, timers, nextTimer>>
       ELSE Ensured(j)
    /\ UNCHANGED <<lastRunMeta, alarm, nextJob, updateLog, completedRuns>>

\* the steps of runLiveCheck() and of its refreshFollowCache(false) in a job
RunStep ==
  \/ JobStep(CheckAuthRead)
  \/ JobStep(AuthStatusRead)
  \/ JobStep(EnsureAuth)
  \/ JobStep(CacheRead)
  \/ JobStep(SnapshotBuilt)
  \/ JobStep(CacheStored)
  \/ JobStep(SignedOut)
  \/ JobStep(CacheCleared)
  \/ JobStep(AuthBroadcast)
  \/ JobStep(PreferencesRead)
  \/ JobStep(TagStateRead)
  \/ JobStep(NotificationCreated)
  \/ JobStep(LiveStateSaved)
  \/ JobStep(BadgeUpdated)

\* the other steps of the scheduler functions
LogStep ==
  \/ SchedulerStep(LogRead)
  \/ SchedulerStep(LogWritten)

\* time passes, by one second
Wait ==
  /\ clock + 1000 <= 10 + MaxSeconds * 1000
  /\ clock' = clock + 1000
  /\ UNCHANGED <<storage, isOperationInProgress, operationQueue, running,
                 nextTicket, importRun, settled, startedLast, expected,
                 serialOrder, rejected, otherVars>>

\* a followed streamer starts a broadcast
StreamStarts ==
  \E s \in DOMAIN remote :
    /\ remote[s].startedAt # clock
    /\ remote' = [remote EXCEPT ![s] = [isLive |-> TRUE, startedAt |-> clock]]
    /\ UNCHANGED <<authState, followCache, calls, nextCall, returned, rebuilds,
                   broadcasts, liveVars>>

\* a followed streamer ends the broadcast
StreamEnds ==
  \E s \in DOMAIN remote :
    /\ remote[s].isLive
    /\ remote' = [remote EXCEPT ![s] = NoEntry]
    /\ UNCHANGED <<authState, followCache, calls, nextCall, returned, rebuilds,
                   broadcasts, liveVars>>

\* ten minutes pass, at most ticks times
TenMinutes(ticks) ==
  /\ clock + 10 * Minute < 10 + ticks * 10 * Minute + Minute
  /\ clock' = clock + 10 * Minute
  /\ UNCHANGED <<storage, isOperationInProgress, operationQueue, running,
                 nextTicket, importRun, settled, startedLast, expected,
                 serialOrder, rejected, otherVars>>

\* time passes, by one of the durations
Tick(durations) ==
  \E elapsed \in durations :
    /\ clock + elapsed <= 10 + MaxMinutes * Minute
    /\ clock' = clock + elapsed
    /\ UNCHANGED <<storage, isOperationInProgress, operationQueue, running,
                   nextTicket, importRun, settled, startedLast, expected,
                   serialOrder, rejected, otherVars>>

\* time passes until one of the instants
Elapse(instants) ==
  \E instant \in instants :
    /\ clock < instant
    /\ clock' = instant
    /\ UNCHANGED <<storage, isOperationInProgress, operationQueue, running,
                   nextTicket, importRun, settled, startedLast, expected,
                   serialOrder, rejected, otherVars>>

\* a step of followCache.js leaves the tag document manager alone
FollowStep(step) ==
  /\ step
  /\ UNCHANGED <<storage, isOperationInProgress, operationQueue, running, clock,
                 nextTicket, importRun, settled, startedLast, expected, serialOrder,
                 rejected, normalizeRun, schedVars>>

\* no document is being normalized
NoNormalize == [pc |-> "idle", doc |-> defaultTagState, once |-> defaultTagState,
                twice |-> defaultTagState]

\* normalizeTagState(doc) returns; the clock may advance before the next call
NormalizeOnce ==
  \E elapsed \in {0, 1} :
    /\ normalizeRun.pc = "raw"
    /\ normalizeRun' = [normalizeRun EXCEPT !.pc = "once",
                                            !.once = normalizeTagState(normalizeRun.doc, clock)]
    /\ clock' = clock + elapsed
    /\ UNCHANGED <<storage, isOperationInProgress, operationQueue, running,
                   nextTicket, importRun, settled, startedLast, expected, serialOrder,
                   rejected, followVars, liveVars, schedVars>>

\* normalizeTagState is applied to the document the first call returned
NormalizeTwice ==
  /\ normalizeRun.pc = "once"
  /\ normalizeRun' = [normalizeRun EXCEPT !.pc = "twice",
                                          !.twice = normalizeTagState(normalizeRun.once, clock)]
  /\ UNCHANGED <<storage, isOperationInProgress, operationQueue, running, clock,
                 nextTicket, importRun, settled, startedLast, expected, serialOrder,
                 rejected, followVars, liveVars, schedVars>>

----------------------------------------------------------------------------
(* Inputs *)

NameAb == <<"A", "b">>
NameAbLower == <<" ", "a", "b", " ">>
NameCd == <<"C", "d">>
NameStarred == <<"S", "T", "A", "R", "R", "E", "D">>
NameMarkup == <<"<", "b", ">">>

ColorUpper == <<"A", "B", "C", "D", "E", "F">>
ColorBad == <<"r", "e", "d">>

UpsertInputs ==
  {UpsertOp(TRUE, n, FALSE, <<>>, "") : n \in {NameAb, NameAbLower, NameCd, NameStarred, NameMarkup}}
  \cup {UpsertOp(TRUE, NameCd, TRUE, ColorUpper, ""),
        UpsertOp(TRUE, NameAbLower, FALSE, <<>>, "2"),
        UpsertOp(TRUE, NameCd, TRUE, ColorUpper, "1"),
        UpsertOp(FALSE, <<>>, TRUE, ColorBad, "1"),
        UpsertOp(TRUE, NameStarred, FALSE, <<>>, "1"),
        UpsertOp(TRUE, NameCd, TRUE, ColorUpper, STARRED_TAG_ID)}

RemoveInputs == {RemoveOp(id) : id \in {"1", "2", STARRED_TAG_ID}}

ReorderInputs == {ReorderOp(<<"2", "1", "2", STARRED_TAG_ID, "9">>), ReorderOp(<<"2">>)}

\* one or two calls of each of the six operations
QueueOperations ==
  {UpsertOp(TRUE, NameAb, FALSE, <<>>, ""),
   RemoveOp("1"),
   AssignOp("s1", "1", TRUE), AssignOp("s2", STARRED_TAG_ID, TRUE),
   AssignOp("s1", "1", FALSE),
   ReplaceOp("s2", <<"2", "1", "2", "9">>),
   ReorderOp(<<"2", "1", "2", STARRED_TAG_ID, "9">>),
   ResetOp}

\* the calls submitted next to handleImport: the above, and the calls aimed at
\* the starred tag
Operations ==
  QueueOperations \cup
  {UpsertOp(TRUE, NameCd, TRUE, ColorUpper, STARRED_TAG_ID),
   UpsertOp(TRUE, NameStarred, FALSE, <<>>, "1"),
   RemoveOp(STARRED_TAG_ID),
   AssignOp("s1", STARRED_TAG_ID, FALSE),
   ReplaceOp("s1", <<>>)}

\* the calls that change tags only
TagOperations == UpsertInputs \cup RemoveInputs \cup ReorderInputs

\* calls that fail validation, next to calls that pass it
InvalidInputs ==
  UpsertInputs \cup RemoveInputs \cup
  {UpsertOp(TRUE, <<" ">>, FALSE, <<>>, ""),
   UpsertOp(FALSE, <<>>, TRUE, ColorUpper, ""),
   UpsertOp(TRUE, NameCd, FALSE, <<>>, "7"),
   RemoveOp("7"),
   AssignOp("s2", "7", TRUE), AssignOp("s2", "7", FALSE), AssignOp("s1", "1", TRUE)}

\* the call repeated in a burst against the queue bound
BurstOperation == AssignOp("s1", "1", TRUE)

ImportEntry(name, color, hasOrder, sortOrder) ==
  [name |-> name, color |-> color, hasOrder |-> hasOrder, sortOrder |-> sortOrder]

Payloads ==
  { [tags |-> <<ImportEntry(NameCd, <<>>, TRUE, 2), ImportEntry(NameAb, ColorUpper, TRUE, 1),
                ImportEntry(NameAbLower, <<>>, FALSE, 0)>>,
     assignments |-> [s \in {"s1"} |-> <<NameAbLower, NameCd, <<"x">> >>],
     starred |-> <<"s1", "s2", "s1">>],
    [tags |-> <<ImportEntry(STARRED_TAG_NAME, <<>>, FALSE, 0), ImportEntry(NameCd, <<>>, FALSE, 0)>>,
     assignments |-> [s \in {"s2"} |-> <<STARRED_TAG_NAME>>],
     starred |-> <<>>],
    [tags |-> <<ImportEntry(NameMarkup, <<>>, FALSE, 0)>>,
     assignments |-> EmptyMap,
     starred |-> <<>>] }

----------------------------------------------------------------------------
(* Initial states: the service worker has just started, so the module state *)
(* of tagState.js is fresh, and sync storage holds a document that earlier  *)
(* runs of the extension left there.                                        *)

RECURSIVE StoredAfter(_, _, _)
StoredAfter(doc, ops, i) ==
  IF i > Len(ops) THEN doc
  ELSE StoredAfter(SerialResult(doc, Body(ops[i], doc, i), FALSE), ops, i + 1)

StoredDocuments ==
  { defaultTagState,
    StoredAfter(defaultTagState,
                <<UpsertOp(TRUE, NameAb, FALSE, <<>>, ""),
                  UpsertOp(TRUE, NameCd, FALSE, <<>>, ""),
                  AssignOp("s1", "1", TRUE),
                  AssignOp("s1", STARRED_TAG_ID, TRUE),
                  AssignOp("s2", "1", TRUE)>>, 1) }

\* the tag document manager and the importer at rest over a stored document
TagManagerIdle(documents) ==
  /\ storage \in documents
  /\ isOperationInProgress = FALSE
  /\ operationQueue = <<>>
  /\ running = {}
  /\ clock = 10
  /\ nextTicket = 1
  /\ importRun = NoImport("none")
  /\ settled = NoneSettled
  /\ startedLast = 0
  /\ expected = storage
  /\ serialOrder = TRUE
  /\ rejected = {}

\* the service worker signed out, with nothing cached and no call in progress
FollowIdle(credentials, caches, remotes) ==
  /\ authState \in credentials
  /\ followCache \in caches
  /\ remote \in remotes
  /\ calls = {}
  /\ nextCall = 1
  /\ returned = NoneReturned
  /\ rebuilds = EmptyMap
  /\ broadcasts = <<>>

\* the scheduler after a startup that found the user signed in: the alarm is
\* set, no timer is pending, no scheduler function is running
SchedulerIdle ==
  /\ shouldRunLiveChecks = TRUE
  /\ initializationRunInFlight = FALSE
  /\ lastRunMeta = NoRun
  /\ liveCheckTimeoutId = 0
  /\ timers = {}
  /\ nextTimer = 1
  /\ alarm = [available |-> TRUE, set |-> TRUE]
  /\ jobs = {}
  /\ nextJob = 1
  /\ updateLog = <<>>
  /\ completedRuns = <<>>

\* live tracking after startup: the persisted map loaded, the badge showing
\* its live count, nothing notified
LiveIdle(loaded, prefs) ==
  /\ liveState \in loaded
  /\ badge = BadgeText(getLiveStarredCount(liveState))
  /\ notifications = <<>>
  /\ preferences \in prefs
  /\ observed = <<>>
  /\ savedLiveState = liveState
  /\ SchedulerIdle

defaultPreferences ==
  [notificationsEnabled |-> FALSE,
   notificationMaxStreamAgeMinutes |-> DEFAULT_NOTIFICATION_MAX_AGE_MINUTES]

Init ==
  /\ TagManagerIdle(StoredDocuments)
  /\ normalizeRun = NoNormalize
  /\ FollowIdle({NoAuth}, {NoCache}, {EmptyMap})
  /\ LiveIdle({EmptyMap}, {defaultPreferences})

Next ==
  \/ \E op \in Operations : Submit(op, MaxCalls)
  \/ \E payload \in Payloads : ImportCall(payload)
  \/ Load
  \/ Quota
  \/ WriteDone
  \/ ImportQuota
  \/ ImportWrite

Spec == Init /\ [][Next]_vars

\* the six queued operations alone, submitted concurrently
NextQueue ==
  \/ \E op \in QueueOperations : Submit(op, MaxOps)
  \/ Load
  \/ Quota
  \/ WriteDone

SpecQueue == Init /\ [][NextQueue]_vars

InitImport ==
  /\ TagManagerIdle(StoredDocuments)
  /\ normalizeRun = NoNormalize
  /\ FollowIdle({NoAuth}, {NoCache}, {EmptyMap})
  /\ LiveIdle({EmptyMap}, {defaultPreferences})

\* handleImport calls, one after the other, next to calls of operations that
\* do not write
NextImport ==
  \/ \E payload \in Payloads : ImportCall(payload)
  \/ \E op \in {RemoveOp(STARRED_TAG_ID), RemoveOp("7")} : Submit(op, MaxCalls)
  \/ Load
  \/ Quota
  \/ WriteDone
  \/ ImportQuota
  \/ ImportWrite

SpecImport == InitImport /\ [][NextImport]_vars

\* an operation that throws (the starred tag cannot be removed), one that
\* writes and one that returns early
FairOperations ==
  {RemoveOp(STARRED_TAG_ID), AssignOp("s1", STARRED_TAG_ID, TRUE), RemoveOp("7")}

InitQueueFair ==
  /\ TagManagerIdle({defaultTagState})
  /\ normalizeRun = NoNormalize
  /\ FollowIdle({NoAuth}, {NoCache}, {EmptyMap})
  /\ LiveIdle({EmptyMap}, {defaultPreferences})

NextQueueFair ==
  \/ \E op \in FairOperations : Submit(op, MaxOps)
  \/ Load
  \/ Quota
  \/ WriteDone

\* every operation body that was started eventually settles: each of its
\* awaits (getTagState, checkStorageQuota, storageSet) eventually settles
SpecQueueFair ==
  /\ InitQueueFair
  /\ [][NextQueueFair]_vars
  /\ WF_vars(Load)
  /\ WF_vars(Quota)
  /\ WF_vars(WriteDone)

\* upsertTag, removeTag and reorderTags alone
NextTags ==
  \/ \E op \in TagOperations : Submit(op, MaxCalls)
  \/ Load
  \/ Quota
  \/ WriteDone

SpecTags == Init /\ [][NextTags]_vars

\* more submissions of one call than the queue holds
NextBurst ==
  \/ Submit(BurstOperation, MaxBurst)
  \/ Load
  \/ Quota
  \/ WriteDone

SpecBurst == Init /\ [][NextBurst]_vars

\* calls with invalid input among valid ones
NextInvalid ==
  \/ \E op \in InvalidInputs : Submit(op, MaxCalls)
  \/ Load
  \/ Quota
  \/ WriteDone

SpecInvalid == Init /\ [][NextInvalid]_vars

\* documents as sync storage may hold them before normalization: the starred
\* tag absent, intact or damaged; custom tags with ties or gaps in sortOrder;
\* assignments naming absent tags; nextId missing (0), too small or ahead
RawFavorites ==
  { EmptyMap,
    Put(EmptyMap, STARRED_TAG_ID,
        Tag(STARRED_TAG_ID, STARRED_TAG_NAME, StarredTagColor, 5, TRUE, 0)),
    Put(EmptyMap, STARRED_TAG_ID, Tag(STARRED_TAG_ID, NameAb, <<>>, 0, FALSE, 4)) }

RawCustomTags ==
  { EmptyMap,
    Put(Put(EmptyMap, "1", Tag("1", NameAb, ColorUpper, 7, FALSE, 3)),
        "2", Tag("2", NameCd, ColorUpper, 6, FALSE, 3)),
    Put(Put(EmptyMap, "1", Tag("1", NameAb, ColorUpper, 6, FALSE, 5)),
        "3", Tag("3", NameCd, ColorUpper, 6, FALSE, 2)) }

RawAssignments ==
  { EmptyMap,
    Put(Put(EmptyMap, "s1", <<"1", "9">>), "s2", <<"9">>),
    Put(EmptyMap, "s1", <<STARRED_TAG_ID, "3">>) }

RawDocuments ==
  { [tags |-> [k \in DOMAIN favorite \cup DOMAIN custom |->
                 IF k \in DOMAIN favorite THEN favorite[k] ELSE custom[k]],
     assignments |-> assignments,
     nextId |-> nextId] :
      favorite \in RawFavorites, custom \in RawCustomTags,
      assignments \in RawAssignments, nextId \in {0, 1, 2, 7} }

InitNormalize ==
  /\ TagManagerIdle({defaultTagState})
  /\ FollowIdle({NoAuth}, {NoCache}, {EmptyMap})
  /\ LiveIdle({EmptyMap}, {defaultPreferences})
  /\ normalizeRun \in {[NoNormalize EXCEPT !.pc = "raw", !.doc = doc] : doc \in RawDocuments}

NextNormalize ==
  \/ NormalizeOnce
  \/ NormalizeTwice

SpecNormalize == InitNormalize /\ [][NextNormalize]_vars

\* the credentials the extension may hold at start: none, a token without
\* expiry, a token that expires after four minutes
StoredCredentials ==
  { NoAuth,
    [accessToken |-> "token", expiresAt |-> 0],
    [accessToken |-> "token", expiresAt |-> 10 + 4 * Minute] }

InitFollow ==
  /\ TagManagerIdle({defaultTagState})
  /\ normalizeRun = NoNormalize
  /\ FollowIdle(StoredCredentials, {NoCache, [fetchedAt |-> 10, items |-> EmptyMap]},
                {EmptyMap})
  /\ LiveIdle({EmptyMap}, {defaultPreferences})

\* refreshFollowCache called by several surfaces, the calls overlapping
NextFollow ==
  \/ \E force \in BOOLEAN : FollowStep(refreshFollowCache(force, MaxRefreshes))
  \/ FollowStep(AuthStatusRead)
  \/ FollowStep(EnsureAuth)
  \/ FollowStep(CacheRead)
  \/ FollowStep(SnapshotBuilt)
  \/ FollowStep(CacheStored)
  \/ FollowStep(SignedOut)
  \/ FollowStep(CacheCleared)
  \/ FollowStep(AuthBroadcast)
  \/ Tick({5 * Minute})

SpecFollow == InitFollow /\ [][NextFollow]_vars

\* refreshFollowCache called again only after the previous call settled
NextFollowSerial ==
  \/ \E force \in BOOLEAN : FollowStep(refreshFollowCache(force, 1))
  \/ FollowStep(AuthStatusRead)
  \/ FollowStep(EnsureAuth)
  \/ FollowStep(CacheRead)
  \/ FollowStep(SnapshotBuilt)
  \/ FollowStep(CacheStored)
  \/ FollowStep(SignedOut)
  \/ FollowStep(CacheCleared)
  \/ FollowStep(AuthBroadcast)
  \/ Tick({Minute, 5 * Minute})

SpecFollowSerial == InitFollow /\ [][NextFollowSerial]_vars

\* the streamer of the scenarios, offline or live since the start
Streamer == "123"
Offline == Put(EmptyMap, Streamer, NoEntry)
LiveSince(t) == Put(EmptyMap, Streamer, [isLive |-> TRUE, startedAt |-> t])

\* the starred tag toggled on the streamer
StarOperations ==
  {AssignOp(Streamer, STARRED_TAG_ID, TRUE), AssignOp(Streamer, STARRED_TAG_ID, FALSE)}

Unstarred == normalizeTagState(defaultTagState, 5)
Starred == [Unstarred EXCEPT !.assignments = Put(EmptyMap, Streamer, <<STARRED_TAG_ID>>)]

NotificationsOn == [defaultPreferences EXCEPT !.notificationsEnabled = TRUE]

\* the refreshFollowCache steps inside syncLiveAssignments and runLiveCheck
RefreshStep ==
  \/ FollowStep(AuthStatusRead)
  \/ FollowStep(CacheRead)
  \/ FollowStep(SnapshotBuilt)
  \/ FollowStep(CacheStored)
  \/ FollowStep(SignedOut)
  \/ FollowStep(CacheCleared)
  \/ FollowStep(AuthBroadcast)

\* the steps of runLiveCheck and of the tail of syncLiveAssignments
LiveStep ==
  \/ FollowStep(CheckAuthRead)
  \/ FollowStep(PreferencesRead)
  \/ FollowStep(TagStateRead)
  \/ FollowStep(NotificationCreated)
  \/ FollowStep(LiveStateSaved)
  \/ FollowStep(BadgeUpdated)

SignedIn == [accessToken |-> "token", expiresAt |-> 0]

\* the cache as refreshFollowCache stored it at startup
CacheOf(items) == [fetchedAt |-> 10, items |-> items]

\* syncLiveAssignments after toggles of the starred tag: the streamer tracked
\* or not, live or offline, the cache stored or absent
InitSync ==
  /\ TagManagerIdle({Unstarred, Starred})
  /\ normalizeRun = NoNormalize
  /\ \E items \in {Offline, LiveSince(10)} :
       /\ FollowIdle({SignedIn}, {NoCache, CacheOf(items)}, {items})
       /\ LiveIdle({EmptyMap} \cup
                    (IF Streamer \in StarredIds(storage.assignments)
                     THEN {Offline, LiveSince(10)} ELSE {}),
                   {NotificationsOn})

NextSync ==
  \/ \E op \in StarOperations : Submit(op, MaxCalls)
  \/ Load
  \/ Quota
  \/ WriteDone
  \/ FollowStep(syncLiveAssignments(MaxLiveCalls))
  \/ RefreshStep
  \/ FollowStep(EnsureAuth)
  \/ FollowStep(LiveStateSaved)
  \/ FollowStep(BadgeUpdated)

SpecSync == InitSync /\ [][NextSync]_vars

\* the starred tag assigned to a live streamer, then a live check, with or
\* without a syncLiveAssignments in between; one call of liveTracking.js at a time
InitStar ==
  /\ TagManagerIdle({Unstarred})
  /\ normalizeRun = NoNormalize
  /\ FollowIdle({SignedIn}, {NoCache}, {LiveSince(10)})
  /\ LiveIdle({EmptyMap}, {NotificationsOn})

NextStar ==
  \/ Submit(AssignOp(Streamer, STARRED_TAG_ID, TRUE), MaxCalls)
  \/ Load
  \/ Quota
  \/ WriteDone
  \/ FollowStep(syncLiveAssignments(1))
  \/ FollowStep(runLiveCheck(1))
  \/ RefreshStep
  \/ FollowStep(EnsureAuth)
  \/ LiveStep
  \/ TenMinutes(MaxStarTicks)

SpecStar == InitStar /\ [][NextStar]_vars

\* live checks of a starred streamer whose broadcasts start and end; the ten
\* minutes of the poll interval pass between two checks, a check itself takes
\* no measurable time
InitNotify ==
  /\ TagManagerIdle({Starred})
  /\ normalizeRun = NoNormalize
  /\ FollowIdle({SignedIn}, {NoCache}, {Offline, LiveSince(10)})
  /\ LiveIdle({EmptyMap}, {NotificationsOn, defaultPreferences})

NextNotify ==
  \/ FollowStep(runLiveCheck(1))
  \/ RefreshStep
  \/ LiveStep
  \/ FollowStep(StreamStarts)
  \/ FollowStep(StreamEnds)
  \/ calls = {} /\ TenMinutes(MaxTicks)

SpecNotify == InitNotify /\ [][NextNotify]_vars

\* the scheduler with live checks enabled: with the alarms API the alarm is
\* set, without it the fallback timer is pending; an initialization run may
\* have completed just now
SchedulerRunning ==
  /\ shouldRunLiveChecks = TRUE
  /\ initializationRunInFlight = FALSE
  /\ lastRunMeta \in {NoRun, recordRunMeta("initialization", TRUE, 10)}
  /\ \E available \in BOOLEAN :
       /\ alarm = [available |-> available, set |-> available]
       /\ liveCheckTimeoutId = IF available THEN 0 ELSE 1
       /\ timers = IF available THEN {} ELSE {1}
  /\ nextTimer = 2
  /\ jobs = {}
  /\ nextJob = 1
  /\ updateLog = <<>>
  /\ completedRuns = IF lastRunMeta = NoRun THEN <<>> ELSE <<lastRunMeta>>

\* scheduled and manual live checks of a starred streamer, the credentials
\* stored or not, the cache to be built
InitSchedule ==
  /\ TagManagerIdle({Starred})
  /\ normalizeRun = NoNormalize
  /\ FollowIdle({SignedIn, NoAuth}, {NoCache}, {LiveSince(10)})
  /\ liveState = EmptyMap
  /\ savedLiveState = EmptyMap
  /\ badge = ""
  /\ notifications = <<>>
  /\ preferences = NotificationsOn
  /\ observed = <<>>
  /\ SchedulerRunning

\* the scheduled ticks and their runs; at most two are in progress at a time
NextSchedule ==
  \/ Cardinality(jobs) < 2 /\ SchedulerStep(handleLiveAlarm)
  \/ Cardinality(jobs) < 2 /\ SchedulerStep(TimerFires)
  \/ RunStep
  \/ LogStep

SpecSchedule == InitSchedule /\ [][NextSchedule]_vars

\* the alarms API is unavailable
InitFallback ==
  /\ InitSchedule
  /\ ~alarm.available

\* the fallback ticks and their runs, while surfaces enable the checks and
\* disable them when they are enabled; at most two scheduler functions are in
\* progress at a time
NextFallback ==
  \/ Cardinality(jobs) < 2 /\ SchedulerStep(TimerFires)
  \/ Cardinality(jobs) < 2 /\ SchedulerStep(ensureLiveChecksRunning)
  \/ Cardinality(jobs) < 2 /\ shouldRunLiveChecks /\ SchedulerStep(stopLiveChecks)
  \/ RunStep
  \/ LogStep

SpecFallback == InitFallback /\ [][NextFallback]_vars

\* the service worker has started: the module state is fresh,
\* initializeLiveTracking() was called and awaits loadLiveState(), and the
\* alarm is set if an earlier run of the worker created it
WorkerStarted ==
  /\ shouldRunLiveChecks = FALSE
  /\ initializationRunInFlight = FALSE
  /\ lastRunMeta = NoRun
  /\ liveCheckTimeoutId = 0
  /\ timers = {}
  /\ nextTimer = 1
  /\ alarm \in {[available |-> TRUE, set |-> isSet] : isSet \in BOOLEAN}
  /\ jobs = {[Job(0, "init", "initialization", TRUE) EXCEPT !.pc = "load"]}
  /\ nextJob = 1
  /\ updateLog = <<>>
  /\ completedRuns = <<>>

\* the start of the worker and the seconds after it: the streamer is starred
\* and live with the broadcast the persisted live state records, or was not
\* tracked; the credentials are stored or not and the cache is fresh
InitStartup ==
  /\ TagManagerIdle({Starred})
  /\ normalizeRun = NoNormalize
  /\ FollowIdle({SignedIn, NoAuth}, {CacheOf(LiveSince(10))}, {LiveSince(10)})
  /\ savedLiveState \in {EmptyMap, LiveSince(10)}
  /\ liveState = EmptyMap
  /\ badge = ""
  /\ notifications = <<>>
  /\ preferences = NotificationsOn
  /\ observed = <<>>
  /\ WorkerStarted

\* the steps of runLiveCheck() over a fresh cache
CachedRunStep ==
  \/ JobStep(CheckAuthRead)
  \/ JobStep(AuthStatusRead)
  \/ JobStep(CacheRead)
  \/ JobStep(PreferencesRead)
  \/ JobStep(TagStateRead)
  \/ JobStep(NotificationCreated)
  \/ JobStep(LiveStateSaved)
  \/ JobStep(BadgeUpdated)

\* at most two scheduler functions are in progress at a time, and they take
\* no measurable time; the checks are disabled when they are enabled
NextStartup ==
  \/ Cardinality(jobs) < 2 /\ SchedulerStep(handleLiveAlarm)
  \/ Cardinality(jobs) < 2 /\ SchedulerStep(ensureLiveChecksRunning)
  \/ Cardinality(jobs) < 2 /\ shouldRunLiveChecks /\ SchedulerStep(stopLiveChecks)
  \/ SchedulerStep(AlarmStopped)
  \/ SchedulerStep(LiveStateLoaded)
  \/ SchedulerStep(InitAuthRead)
  \/ SchedulerStep(InitStateSaved)
  \/ SchedulerStep(InitBadgeUpdated)
  \/ SchedulerStep(AlarmCleared)
  \/ SchedulerStep(AlarmCreated)
  \/ SchedulerStep(AlarmStarted)
  \/ CachedRunStep
  \/ LogStep
  \/ jobs = {} /\ Wait

SpecStartup == InitStartup /\ [][NextStartup]_vars

\* the worker after a first start that found nobody signed in: the module
\* state is fresh, no alarm was created; the user has signed in since and the
\* cache is fresh
InitAlarm ==
  /\ TagManagerIdle({Starred})
  /\ normalizeRun = NoNormalize
  /\ FollowIdle({SignedIn}, {CacheOf(LiveSince(10))}, {LiveSince(10)})
  /\ savedLiveState = EmptyMap
  /\ liveState = EmptyMap
  /\ badge = ""
  /\ notifications = <<>>
  /\ preferences = NotificationsOn
  /\ observed = <<>>
  /\ shouldRunLiveChecks = FALSE
  /\ initializationRunInFlight = FALSE
  /\ lastRunMeta = NoRun
  /\ liveCheckTimeoutId = 0
  /\ timers = {}
  /\ nextTimer = 1
  /\ alarm = [available |-> TRUE, set |-> FALSE]
  /\ jobs = {}
  /\ nextJob = 1
  /\ updateLog = <<>>
  /\ completedRuns = <<>>

\* surfaces enable and disable the checks, the awaited calls of the alarms
\* API resolve or reject, fallback timers fire; at most two scheduler
\* functions are in progress at a time
NextAlarm ==
  \/ Cardinality(jobs) < 2 /\ SchedulerStep(ensureLiveChecksRunning)
  \/ Cardinality(jobs) < 2 /\ shouldRunLiveChecks /\ SchedulerStep(stopLiveChecks)
  \/ Cardinality(jobs) < 2 /\ SchedulerStep(TimerFires)
  \/ SchedulerStep(AlarmCleared)
  \/ SchedulerStep(AlarmCreated)
  \/ SchedulerStep(AlarmFailed)
  \/ SchedulerStep(AlarmStarted)
  \/ SchedulerStep(AlarmStopped)
  \/ CachedRunStep
  \/ LogStep

SpecAlarm == InitAlarm /\ [][NextAlarm]_vars

\* a followed streamer whose login is not a Twitch username
Stranger == "456"

\* both streamers carry the starred tag
StarredBoth ==
  [Unstarred EXCEPT !.assignments =
     Put(Put(EmptyMap, Streamer, <<STARRED_TAG_ID>>), Stranger, <<STARRED_TAG_ID>>)]

\* the stored maximum stream age: absent, not a number, below the minimum,
\* inside the range, above the maximum
StoredPreferences ==
  {defaultPreferences} \cup
  {[notificationsEnabled |-> TRUE, notificationMaxStreamAgeMinutes |-> age] :
     age \in {NotANumber, 0, 1, DEFAULT_NOTIFICATION_MAX_AGE_MINUTES, 1000}}

\* the instants of the live checks: 5, 35 and 755 minutes after startup, so
\* that broadcasts are 0, 5, 30, 35, 720, 750 and 755 minutes old
CheckInstants == {10 + m * Minute : m \in {5, 35, 755}}

\* live checks of one starred streamer, with a valid login or not, under each
\* stored preference and at each age of the broadcast; the start of a
\* broadcast may be unknown (0); one check at a time
InitEligible ==
  /\ TagManagerIdle({StarredBoth})
  /\ normalizeRun = NoNormalize
  /\ \E s \in {Streamer, Stranger} :
       \E item \in {NoEntry, [isLive |-> TRUE, startedAt |-> 10],
                     [isLive |-> TRUE, startedAt |-> 0]} :
         /\ FollowIdle({SignedIn}, {NoCache}, {Put(EmptyMap, s, item)})
         /\ LiveIdle({EmptyMap, Put(EmptyMap, s, [isLive |-> TRUE, startedAt |-> 10])},
                     StoredPreferences)

NextEligible ==
  \/ FollowStep(runLiveCheck(1))
  \/ RefreshStep
  \/ LiveStep
  \/ FollowStep(StreamStarts)
  \/ FollowStep(StreamEnds)
  \/ calls = {} /\ Elapse(CheckInstants)

SpecEligible == InitEligible /\ [][NextEligible]_vars

\* documents holding the starred tag only (absent, intact or damaged before
\* normalization), with nextId missing (0), fresh or ahead after removals
OnlyStarredDocuments ==
  { [tags |-> favorite, assignments |-> EmptyMap, nextId |-> nextId] :
      favorite \in RawFavorites, nextId \in {0, 1, 3, 7} }

\* calls of upsertTag that create a tag: without a color, with a blank one,
\* with a color
CreateInputs ==
  {UpsertOp(TRUE, n, FALSE, <<>>, "") : n \in {NameAb, NameAbLower, NameCd}}
  \cup {UpsertOp(TRUE, NameAb, TRUE, <<" ">>, ""), UpsertOp(TRUE, NameCd, TRUE, ColorUpper, "")}

InitCreate ==
  /\ TagManagerIdle(OnlyStarredDocuments)
  /\ normalizeRun = NoNormalize
  /\ FollowIdle({NoAuth}, {NoCache}, {EmptyMap})
  /\ LiveIdle({EmptyMap}, {defaultPreferences})

\* tags created in documents that hold the starred tag only
NextCreate ==
  \/ \E op \in CreateInputs : Submit(op, MaxCalls)
  \/ Load
  \/ Quota
  \/ WriteDone

SpecCreate == InitCreate /\ [][NextCreate]_vars

\* the dashboard asked for while signed out or in, with nothing cached or a
\* cache of the start, the stored preferences being the defaults or not
InitDashboard ==
  /\ TagManagerIdle(StoredDocuments)
  /\ normalizeRun = NoNormalize
  /\ FollowIdle(StoredCredentials, {NoCache, CacheOf(LiveSince(10))}, {Offline})
  /\ LiveIdle({EmptyMap}, {defaultPreferences, NotificationsOn})

\* getDashboardPayload called again only after the previous call settled
NextDashboard ==
  \/ \E force \in BOOLEAN : FollowStep(getDashboardPayload(force, 1))
  \/ FollowStep(DashboardRead)
  \/ FollowStep(DashboardAuthRead)
  \/ FollowStep(DashboardStoredRead)
  \/ FollowStep(DashboardReauth)
  \/ RefreshStep
  \/ FollowStep(EnsureAuth)
  \/ Tick({5 * Minute})

SpecDashboard == InitDashboard /\ [][NextDashboard]_vars

----------------------------------------------------------------------------
(* Properties *)

QueuedTickets == {operationQueue[i].ticket : i \in 1..Len(operationQueue)}

RunningTickets == {b.ticket : b \in running}

\* the documents that a body or handleImport has passed to setTagState and that
\* are not yet written or refused
DocumentsInWriting ==
  {b.state : b \in {r \in running : r.pc \in {"quota", "write"}}}
    \cup (IF importRun.pc \in {"quota", "write"} THEN {importRun.state} ELSE {})

\* the document the operation that settled last resolved with, if it resolved
DocumentsReturned == IF settled.outcome = "resolved" THEN {settled.state} ELSE {}

\* the persisted document, once the manager has written it
DocumentsPersisted == IF storage = defaultTagState THEN {} ELSE {storage}

DocumentsOut == DocumentsInWriting \cup DocumentsReturned \cup DocumentsPersisted

\* C1: whatever the interleaving of the callers of the six operations, at most
\* one operation body is between its load and the end of its write at any time,
\* and the flag isOperationInProgress is set exactly while one is.
C1_OneBodyAtATime ==
  /\ Cardinality(running) <= 1
  /\ isOperationInProgress <=> running # {}

\* one body is executing while two accepted operations wait
C1_Witness == running # {} /\ Len(operationQueue) = 2

\* C2: when mutations are submitted concurrently and accepted, the persisted
\* document is the result of applying the settled ones one after another in
\* submission order, each to the document its predecessor left: no update is lost.
C2_SerialOutcome == storage = expected /\ serialOrder

\* an updateAssignment has been applied, a second one is between its load and
\* its write, and a third operation waits behind it
C2_Witness ==
  /\ settled.outcome = "resolved"
  /\ settled.op.kind = "updateAssignment"
  /\ \E b \in running : b.op.kind = "updateAssignment" /\ b.pc = "write"
                           /\ b.state # storage
  /\ operationQueue # <<>>

\* C3: operations start in the order of their submission, and when one starts
\* every operation submitted before it has run to completion: no earlier one
\* is still waiting or executing.
C3_FifoStart ==
  [][startedLast' # startedLast =>
       /\ startedLast' > startedLast
       /\ \A i \in 1..Len(operationQueue') : operationQueue'[i].ticket > startedLast'
       /\ \A b \in running' : b.ticket = startedLast'
       /\ \A b \in running : settled'.ticket = b.ticket]_vars

\* the second operation has started after the first one completed, the third waits
C3_Witness ==
  /\ startedLast = 2
  /\ settled.ticket = 1
  /\ RunningTickets = {2}
  /\ QueuedTickets = {3}

\* C4 as stated: of N operations submitted before any of them completes, the
\* N - 50 in excess of the capacity are rejected.
C4_ExcessOverCapacityRejected ==
  settled = NoneSettled =>
    Cardinality(rejected) =
      (IF nextTicket - 1 > MAX_QUEUE_SIZE THEN nextTicket - 1 - MAX_QUEUE_SIZE ELSE 0)

\* C4 amended: the capacity of 50 bounds the operations that wait, the one in
\* flight not counted.  Of N operations submitted before any of them completes,
\* the first is in flight, the next 50 wait, and the N - 51 others are rejected at
\* once; a rejected operation is never queued, never executes and persists nothing.
C4_ExcessOverWaitingRejected ==
  /\ Len(operationQueue) <= MAX_QUEUE_SIZE
  /\ rejected \cap (QueuedTickets \cup RunningTickets \cup {settled.ticket, startedLast}) = {}
  /\ storage = expected
  /\ settled = NoneSettled =>
       rejected = {t \in 1..(nextTicket - 1) : t > MAX_QUEUE_SIZE + 1}

\* 53 operations were submitted before any completed: two of them were rejected
C4_Witness ==
  /\ settled = NoneSettled
  /\ Cardinality(rejected) = 2
  /\ Len(operationQueue) = MAX_QUEUE_SIZE
  /\ running # {}

\* C5: every write of the persisted tag document is the write of an operation
\* body running in the serial queue, the writes of handleImport included.
C5_WritesInsideQueue ==
  [][storage' # storage =>
       \E b \in running : b.pc = "write" /\ storage' = b.state]_vars

IsStarredTag(tag) ==
  /\ tag.id = STARRED_TAG_ID
  /\ tag.name = STARRED_TAG_NAME
  /\ tag.color = StarredTagColor
  /\ tag.locked
  /\ tag.sortOrder = 0

HasOneStarredTag(doc) ==
  /\ STARRED_TAG_ID \in DOMAIN doc.tags
  /\ \A k \in DOMAIN doc.tags : IsStarredTag(doc.tags[k]) <=> k = STARRED_TAG_ID
  /\ \A k \in DOMAIN doc.tags \ {STARRED_TAG_ID} :
       doc.tags[k].id # STARRED_TAG_ID /\ ~doc.tags[k].locked

\* C6: every document written or returned by an operation has exactly one
\* starred tag, under the id 'favorite', with its reserved name and color,
\* locked and at sortOrder 0.
C6_StarredTagKept == \A doc \in DocumentsOut : HasOneStarredTag(doc)

\* a call aimed at the starred tag was refused, and the persisted document has
\* custom tags next to the starred one
C6_Witness ==
  /\ settled.outcome = "rejected"
  /\ settled.error = "Favorite tag cannot be modified."
  /\ Cardinality(DOMAIN storage.tags) >= 3

NamesDistinct(doc) ==
  /\ \A k1, k2 \in DOMAIN doc.tags :
       k1 # k2 => toLowerCase(doc.tags[k1].name) # toLowerCase(doc.tags[k2].name)
  /\ \A k \in DOMAIN doc.tags \ {STARRED_TAG_ID} :
       toLowerCase(doc.tags[k].name) \notin ReservedNames

\* C7: no document persisted or returned has two tags whose names are equal
\* ignoring letter case, and no custom tag bears the reserved name of the
\* starred tag or one of its aliases.
C7_NamesUnique == \A doc \in DocumentsOut : NamesDistinct(doc)

\* a name differing from an existing one by case and blanks only was refused
C7_Witness ==
  /\ settled.outcome = "rejected"
  /\ settled.error = "A tag with that name already exists."
  /\ settled.op.name = NameAbLower
  /\ \E k \in DOMAIN storage.tags : storage.tags[k].name = NameAb

DenseSortOrder(doc) ==
  {doc.tags[k].sortOrder : k \in DOMAIN doc.tags \ {STARRED_TAG_ID}}
    = 1..Cardinality(DOMAIN doc.tags \ {STARRED_TAG_ID})

\* C8: the persisted document and the document an operation returned have
\* custom tags whose sortOrder values are exactly 1..N.
C8_DenseSortOrder ==
  \A doc \in DocumentsReturned \cup DocumentsPersisted : DenseSortOrder(doc)

NextIdAbove(doc) ==
  \A k \in DOMAIN doc.tags : IsNumericId(k) => NumberOf(k) < doc.nextId

\* C9: across upsertTag, removeTag and reorderTags, nextId of the persisted
\* document never decreases and exceeds every numeric id present, and a newly
\* created tag gets an id not below the nextId persisted before it.
C9_NextIdNeverReused ==
  /\ NextIdAbove(storage)
  /\ [][/\ storage'.nextId >= storage.nextId
         /\ NextIdAbove(storage')
         /\ \A k \in DOMAIN storage'.tags \ DOMAIN storage.tags :
              IsNumericId(k) => NumberOf(k) >= storage.nextId]_vars

\* the tag with the highest id was removed, and the tag created next got a new id
C9_Witness ==
  /\ settled.ticket = 2
  /\ settled.outcome = "resolved"
  /\ settled.op.kind = "upsertTag"
  /\ DOMAIN storage.tags = {STARRED_TAG_ID, "1", "3"}
  /\ storage.nextId = 4

AssignmentsValid(doc) ==
  \A s \in DOMAIN doc.assignments :
    /\ doc.assignments[s] # <<>>
    /\ \A i \in 1..Len(doc.assignments[s]) : doc.assignments[s][i] \in DOMAIN doc.tags

Without(doc, tagId) ==
  /\ tagId \notin DOMAIN doc.tags
  /\ \A s \in DOMAIN doc.assignments : ~Includes(doc.assignments[s], tagId)

\* C10: every tag id in an assignment of the persisted document is the id of a
\* tag of that document and no assignment is empty; the document removeTag(X)
\* writes or returns has neither the tag X nor X in any assignment.
C10_AssignmentsValid ==
  /\ AssignmentsValid(storage)
  /\ \A b \in running :
       b.op.kind = "removeTag" /\ b.pc \in {"quota", "write"} => Without(b.state, b.op.tagId)
  /\ settled.op.kind = "removeTag" /\ settled.outcome = "resolved" =>
       Without(settled.state, settled.op.tagId)

\* removeTag("1") has been persisted: the streamer that had only tag 1 lost its
\* entry, the other one kept the starred tag
C10_Witness ==
  /\ settled.op.kind = "removeTag"
  /\ settled.outcome = "resolved"
  /\ settled.op.tagId = "1"
  /\ storage = settled.state
  /\ DOMAIN storage.assignments = {"s1"}
  /\ "2" \in DOMAIN storage.tags

\* the messages of the errors thrown by the validations of the operation bodies
ValidationErrors ==
  {"Tag name cannot be empty.", "Tag name contains invalid characters or is too long.",
   "Starred tag already exists.", "A tag with that name already exists.",
   "Tag color must be a 6-digit hex value.", "Tag not found.",
   "Favorite tag cannot be modified."}

\* the tag id of the call names no tag of doc (the starred tag exists in every
\* loaded document)
UnknownTarget(op, doc) ==
  op.tagId # "" /\ op.tagId \notin DOMAIN doc.tags \cup {STARRED_TAG_ID}

\* the call has one of the defects listed in C11, doc being the persisted document
InvalidCall(op, doc) ==
  \/ op.kind \in {"upsertTag", "removeTag"} /\ op.tagId = STARRED_TAG_ID
  \/ op.kind \in {"upsertTag", "updateAssignment"} /\ UnknownTarget(op, doc)
  \/ /\ op.kind = "upsertTag"
     /\ \/ op.colorProvided /\ Trim(op.color) # <<>> /\ ~IsHexColor(Trim(op.color))
        \/ op.tagId = "" /\ ~op.nameProvided
        \/ op.nameProvided /\ Trim(StripHtml(op.name)) = <<>>
        \/ op.nameProvided /\ toLowerCase(Trim(StripHtml(op.name))) \in ReservedNames
        \/ op.nameProvided /\
             \E k \in DOMAIN doc.tags :
               k # op.tagId /\ toLowerCase(doc.tags[k].name) = toLowerCase(Trim(StripHtml(op.name)))

\* C11: an operation whose input fails validation (empty, reserved or duplicate
\* name, invalid color, unknown tag id, starred tag as target) rejects with the
\* error of that validation, and the step in which it settles leaves the
\* persisted document as it was.
C11_InvalidInputRejected ==
  [][\A b \in running :
       settled'.ticket = b.ticket /\ InvalidCall(b.op, storage) =>
         /\ settled'.outcome = "rejected"
         /\ settled'.error \in ValidationErrors
         /\ storage' = storage]_vars

\* a rename onto the name of another tag, submitted second, was rejected and the
\* persisted document still has the tags it had
C11_Witness ==
  /\ settled.outcome = "rejected"
  /\ settled.error = "A tag with that name already exists."
  /\ settled.op.tagId = "2"
  /\ settled.ticket = 2
  /\ storage = expected
  /\ Cardinality(DOMAIN storage.tags) = 3

\* C12: upsertTag with a target id, removeTag and updateAssignment, given a tag
\* id that names no tag of the document, reject with an error.
C12_UnknownIdRejected ==
  [][\A b \in running :
       /\ settled'.ticket = b.ticket
       /\ b.op.kind \in {"upsertTag", "removeTag", "updateAssignment"}
       /\ UnknownTarget(b.op, storage)
       => settled'.outcome = "rejected"]_vars

\* C13: normalizeTagState is idempotent: applied to the document a first call
\* returned (whether the input lacked the starred tag, held dangling assignment
\* references, gaps or ties in sortOrder, or a missing or too-small nextId), it
\* returns an equal document
C13_NormalizeIdempotent ==
  normalizeRun.pc = "twice" => normalizeRun.twice = normalizeRun.once

\* a document without starred tag, with tied sortOrder, dangling references and
\* no nextId went through both calls while the clock advanced
C13_Witness ==
  /\ normalizeRun.pc = "twice"
  /\ STARRED_TAG_ID \notin DOMAIN normalizeRun.doc.tags
  /\ normalizeRun.doc.nextId = 0
  /\ "s2" \in DOMAIN normalizeRun.doc.assignments
  /\ "2" \in DOMAIN normalizeRun.doc.tags
  /\ normalizeRun.once.nextId = 3
  /\ normalizeRun.once.tags["2"].sortOrder = 1
  /\ DOMAIN normalizeRun.once.assignments = {"s1"}
  /\ clock = 11

\* C14: two refreshFollowCache(false) calls that read the cache less than one
\* TTL (5 minutes) apart, one after the other or overlapping, do not both issue
\* a network rebuild (rebuilds that failed are not counted)
C14_OneRebuildPerWindow ==
  \A a \in DOMAIN rebuilds, b \in DOMAIN rebuilds :
    /\ a # b
    /\ ~rebuilds[a].failed /\ ~rebuilds[b].failed
    => \/ rebuilds[a].readAt - rebuilds[b].readAt >= FOLLOW_CACHE_TTL_MS
       \/ rebuilds[b].readAt - rebuilds[a].readAt >= FOLLOW_CACHE_TTL_MS

\* C15: with valid credentials stored, refreshFollowCache proceeds to the cache
\* read; there a forced call always issues the network rebuild, and an unforced
\* call issues it whenever nothing is cached or the cached value's age has
\* reached the TTL; a call that returns after a successful rebuild returns the
\* cache it persisted, whose fetchedAt is the time the rebuild finished
C15_RebuildWhenForcedOrStale ==
  [][\A c \in calls :
       /\ c.pc = "auth" /\ c \notin calls' /\ isValidAuthState(authState, clock)
            => [c EXCEPT !.pc = "read"] \in calls'
       /\ /\ c.pc = "read" /\ c \notin calls'
          /\ \/ c.force
             \/ followCache = NoCache
             \/ clock - followCache.fetchedAt >= 5 * Minute
          => \E d \in calls' : d.id = c.id /\ d.pc = "build" /\ d.readAt = clock
       /\ c.pc = "store" /\ returned'.call.id = c.id /\ returned'.outcome = "resolved"
            => /\ returned'.cache = followCache'
               /\ followCache'.fetchedAt = c.builtAt
               /\ followCache'.fetchedAt >= c.readAt
               /\ followCache'.fetchedAt >= c.cachedAt]_vars

\* an unforced call found a cache six minutes old, rebuilt and returned the new one
C15_Witness ==
  /\ returned.outcome = "resolved"
  /\ ~returned.call.force
  /\ returned.call.cachedAt = 10
  /\ returned.call.readAt = 10 + 6 * Minute
  /\ returned.cache.fetchedAt = 10 + 6 * Minute
  /\ followCache = returned.cache

C17_TrackedSubsetOfStarred ==
  [][\A c \in calls :
       /\ c.kind = "sync"
       /\ returned'.call.id = c.id
       /\ returned'.outcome = "resolved"
       => DOMAIN liveState' \subseteq StarredIds(storage'.assignments)]_vars

\* the live check with call id run saw streamer s starred and live
SawLive(o, s) == s \in DOMAIN o.seen /\ o.seen[s].isLive

\* the notifications created for streamer s by the live checks in runs
Dispatched(s, runs) ==
  Cardinality({k \in DOMAIN notifications :
                 notifications[k].id = s /\ notifications[k].run \in runs})

Completed(run) == \A c \in calls : c.id # run

\* the start of the broadcast seen by o was within the cutoff, notifications on
Notifiable(o, s) ==
  /\ preferences.notificationsEnabled
  /\ o.at - o.seen[s].startedAt <= preferences.notificationMaxStreamAgeMinutes * Minute

\* C18: with notifications enabled and the broadcast start within the cutoff,
\* two consecutive live checks that both see a starred streamer live with the
\* same startedAt (the first of them being the first to see that broadcast)
\* create exactly one notification for it between them; if the two see
\* different startedAt while the streamer stays live, the second check
\* creates a notification of its own
C18_OneNotificationPerBroadcast ==
  \A i \in DOMAIN observed : \A s \in {Streamer} :
    i + 1 \in DOMAIN observed /\ SawLive(observed[i], s) /\ SawLive(observed[i + 1], s)
    /\ Completed(observed[i].run) /\ Completed(observed[i + 1].run)
    => /\ /\ observed[i].seen[s].startedAt = observed[i + 1].seen[s].startedAt
          /\ Notifiable(observed[i], s)
          /\ (i = 1 \/ ~SawLive(observed[i - 1], s)
                    \/ observed[i - 1].seen[s].startedAt # observed[i].seen[s].startedAt)
          => Dispatched(s, {observed[i].run, observed[i + 1].run}) = 1
       /\ /\ observed[i].seen[s].startedAt # observed[i + 1].seen[s].startedAt
          /\ Notifiable(observed[i + 1], s)
          => Dispatched(s, {observed[i + 1].run}) = 1

\* C18 as the specification words it: any two consecutive live checks that
\* both see a starred streamer live with the same startedAt create exactly one
\* notification between them, and one more when startedAt differs, whatever
\* the preferences, the age of the broadcast and the checks before them
C18_OneNotificationAcrossAnyTwoRuns ==
  \A i \in DOMAIN observed : \A s \in {Streamer} :
    i + 1 \in DOMAIN observed /\ SawLive(observed[i], s) /\ SawLive(observed[i + 1], s)
    /\ Completed(observed[i].run) /\ Completed(observed[i + 1].run)
    => /\ observed[i].seen[s].startedAt = observed[i + 1].seen[s].startedAt
          => Dispatched(s, {observed[i].run, observed[i + 1].run}) = 1
       /\ observed[i].seen[s].startedAt # observed[i + 1].seen[s].startedAt
          => Dispatched(s, {observed[i + 1].run}) = 1

\* two live checks ten minutes apart saw the same broadcast; one notification
C18_Witness ==
  /\ Len(observed) = 2
  /\ calls = {}
  /\ SawLive(observed[1], Streamer) /\ SawLive(observed[2], Streamer)
  /\ observed[1].seen[Streamer].startedAt = 10
  /\ observed[2].seen[Streamer].startedAt = 10
  /\ observed[2].at = observed[1].at + 10 * Minute
  /\ notifications = <<[run |-> observed[1].run, id |-> Streamer]>>

\* C19: after the starred tag was assigned to streamer "123", the first live
\* check, which finds "123" live since T in the cache ten minutes after T
\* (and less than eleven)
\* with notifications enabled and a cutoff of 30 minutes, has created exactly
\* one notification and set the badge to "1" when it completes, whether or not
\* a syncLiveAssignments reconciled the assignment before
C19_StarThenCheckNotifies ==
  [][\A c \in calls :
       /\ c.kind = "check"
       /\ returned'.call.id = c.id
       /\ observed # <<>>
       /\ observed[1].run = c.id
       /\ SawLive(observed[1], Streamer)
       /\ observed[1].at >= observed[1].seen[Streamer].startedAt + 10 * Minute
       /\ observed[1].at < observed[1].seen[Streamer].startedAt + 11 * Minute
       /\ preferences = NotificationsOn
       => /\ Dispatched(Streamer, {c.id}) = 1
          /\ badge' = "1"]_vars

\* C20: when syncLiveAssignments was invoked with assignments in which the
\* changed streamer no longer holds the starred tag, then by the time the call
\* finishes, also by throwing because its follow-cache read failed, the
\* streamer is not tracked and the badge shows the count of tracked live
\* streamers (no text for a count of zero)
C20_UnstarredRemoved ==
  [][\A c \in calls :
       /\ c.kind = "sync"
       /\ c.changedStreamerId \notin c.starredIds
       /\ \A d \in calls' : d.id # c.id
       => /\ c.changedStreamerId \notin DOMAIN liveState'
          /\ badge' = BadgeText(getLiveStarredCount(liveState'))]_vars

\* the payload of the import in progress lists a custom tag named as the starred tag
ImportsStarredName ==
  \E i \in 1..Len(importRun.payload.tags) : importRun.payload.tags[i].name = STARRED_TAG_NAME

\* the custom tags of doc that the entries of payload named otherwise gave
CustomNames(doc) == {doc.tags[k].name : k \in DOMAIN doc.tags \ {STARRED_TAG_ID}}

\* C24: a payload whose custom tags include one named as the starred tag passes
\* validation, and when its import resolves, the document written has no
\* custom tag from that entry (none with the reserved name, one for each of
\* the other entries) and exactly one starred tag
C24_StarredNameSkipped ==
  [][ImportsStarredName
      => /\ validateImportPayload(importRun.payload)
         /\ importRun'.outcome = "resolved"
            => /\ HasOneStarredTag(storage')
               /\ \A k \in DOMAIN storage'.tags \ {STARRED_TAG_ID} :
                    toLowerCase(storage'.tags[k].name) # toLowerCase(STARRED_TAG_NAME)
               /\ CustomNames(storage') =
                    {importRun.payload.tags[i].name : i \in 1..Len(importRun.payload.tags)}
                      \ {STARRED_TAG_NAME}]_vars

\* the import of the payload naming the starred tag and "Cd" resolved
C24_Witness ==
  /\ importRun.outcome = "resolved"
  /\ DOMAIN storage.tags = {STARRED_TAG_ID, "1"}
  /\ storage.tags["1"].name = NameCd
  /\ storage.assignments = EmptyMap

\* the step settles, resolved, a call of upsertTag that creates a tag without a
\* color over a stored document holding no custom tag
CreatesFirstTag ==
  /\ settled' # settled
  /\ settled'.outcome = "resolved"
  /\ settled'.op.kind = "upsertTag"
  /\ settled'.op.tagId = ""
  /\ (~settled'.op.colorProvided \/ Trim(settled'.op.color) = <<>>)
  /\ DOMAIN storage.tags \subseteq {STARRED_TAG_ID}

\* the document written holds, next to the starred tag, one tag with a numeric
\* id, the color of the pool at (id - 1) mod pool size and sortOrder 1
FirstTagCreated(doc, name) ==
  \E k \in DOMAIN doc.tags \ {STARRED_TAG_ID} :
    /\ DOMAIN doc.tags = {STARRED_TAG_ID, k}
    /\ IsNumericId(k)
    /\ doc.tags[k].id = k
    /\ doc.tags[k].color = TAG_COLOR_POOL[((NumberOf(k) - 1) % Len(TAG_COLOR_POOL)) + 1]
    /\ doc.tags[k].color # <<>>
    /\ doc.tags[k].sortOrder = 1
    /\ doc.tags[k].name = name

\* C25: creating a tag without a color in a document that holds only the
\* starred tag gives a tag colored by the pool entry at (id - 1) mod pool size,
\* with sortOrder 1, stored under the sanitized name (HTML tags stripped,
\* trimmed, cut to 50 characters; the case kept)
C25_FirstTagFromPool ==
  [][CreatesFirstTag
     => FirstTagCreated(storage', sanitizeTagName(settled'.op.name))]_vars

\* C25 as the specification words it: the stored name equals the given name
\* exactly
C25_StoredNameIsGivenName ==
  [][CreatesFirstTag => FirstTagCreated(storage', settled'.op.name)]_vars

\* "Ab" was created as tag 3 of a document whose counter was ahead
C25_Witness ==
  /\ settled.outcome = "resolved"
  /\ settled.op = UpsertOp(TRUE, NameAb, FALSE, <<>>, "")
  /\ DOMAIN storage.tags = {STARRED_TAG_ID, "3"}
  /\ storage.tags["3"].name = NameAb
  /\ storage.tags["3"].color = TAG_COLOR_POOL[3]
  /\ storage.tags["3"].sortOrder = 1

\* follows is a list of cache items (an array)
IsFollowList(follows) ==
  \A s \in DOMAIN follows :
    /\ follows[s].isLive \in BOOLEAN
    /\ follows[s].startedAt \in Nat

\* C23: every call of getDashboardPayload resolves, whatever the credentials,
\* the cache and the outcome of the cache refresh were, to an object with
\* auth (null or valid credentials), follows (the items of the cache it ended
\* with, [] without one), fetchedAt, the normalized tagState and the
\* preferences
C23_DashboardNeverRejects ==
  [][\A c \in calls :
       c.kind = "dashboard" /\ returned'.call.id = c.id
       => /\ returned'.outcome = "resolved"
          /\ LET payload == DashboardPayload(returned')
             IN /\ payload.auth = NoAuth \/ payload.auth.accessToken # ""
                /\ IsFollowList(payload.follows)
                /\ payload.follows = IF returned'.cache = NoCache THEN EmptyMap
                                      ELSE returned'.cache.items
                /\ payload.fetchedAt >= 0
                /\ HasOneStarredTag(payload.tagState)
                /\ payload.preferences = getPreferences(preferences)]_vars

\* the cache refresh threw, and the payload carries the stored cache
C23_Witness ==
  /\ returned.call.kind = "dashboard"
  /\ returned.call.phase = "caught"
  /\ returned.outcome = "resolved"
  /\ returned.call.auth # NoAuth
  /\ DashboardPayload(returned).follows = LiveSince(10)
  /\ DashboardPayload(returned).fetchedAt = 10

\* the maximum-age window: the stored value clamped to [5, 720] minutes, 30
\* minutes when there is none
WindowMs(stored) ==
  LET minutes == stored.notificationMaxStreamAgeMinutes
  IN (IF minutes = NotANumber THEN 30
      ELSE IF minutes < 5 THEN 5
      ELSE IF minutes > 720 THEN 720
      ELSE minutes) * Minute

\* the conditions of the specification for a notification in the check o
ShouldNotify(o, s) ==
  /\ preferences.notificationsEnabled
  /\ SawLive(o, s)
  /\ o.seen[s].startedAt # 0
  /\ o.at - o.seen[s].startedAt <= WindowMs(preferences)
  /\ \/ ~(s \in DOMAIN o.tracked /\ o.tracked[s].isLive)
     \/ o.tracked[s].startedAt # o.seen[s].startedAt

\* C27: a completed live check dispatches a notification (exactly one) for a
\* starred streamer of the follow cache if and only if notifications are
\* enabled, the streamer is live, the broadcast started at a known time at
\* most the window ago (the stored value clamped to [5, 720] minutes, 30 by
\* default), the streamer was not tracked as live or was tracked with another
\* startedAt, and the login of the streamer is a valid Twitch username
C27_NotifiedIffEligibleAndValid ==
  \A i \in DOMAIN observed : \A s \in DOMAIN observed[i].seen :
    Completed(observed[i].run)
    => /\ Dispatched(s, {observed[i].run}) <= 1
       /\ Dispatched(s, {observed[i].run}) = 1
            <=> ShouldNotify(observed[i], s) /\ isValidTwitchUsername(LoginOf(s))

\* C27 as the specification words it: the conditions on the preferences, the
\* broadcast and the tracked entry alone decide
C27_NotifiedIffEligible ==
  \A i \in DOMAIN observed : \A s \in DOMAIN observed[i].seen :
    Completed(observed[i].run)
    => (Dispatched(s, {observed[i].run}) = 1 <=> ShouldNotify(observed[i], s))

\* a broadcast exactly 720 minutes old was notified under a stored maximum
\* of 1000 minutes, in a check that tracked the previous broadcast as live
C27_Witness ==
  \E i \in DOMAIN observed :
    /\ Completed(observed[i].run)
    /\ preferences.notificationMaxStreamAgeMinutes = 1000
    /\ SawLive(observed[i], Streamer)
    /\ observed[i].at - observed[i].seen[Streamer].startedAt = 720 * Minute
    /\ Streamer \in DOMAIN observed[i].tracked
    /\ observed[i].tracked[Streamer].isLive
    /\ Dispatched(Streamer, {observed[i].run}) = 1

\* the live-state map that records the streamers a check saw (the starred
\* streamers of the follow cache) with the cache's isLive and startedAt
TrackedFrom(seen) ==
  [s \in DOMAIN seen |->
     [isLive |-> seen[s].isLive,
      startedAt |-> IF seen[s].isLive THEN seen[s].startedAt ELSE 0]]

\* C26: when a live check that evaluated the follow cache completes, the
\* live-state map contains exactly the starred streamers of the cache it
\* used, each with the cache's isLive and startedAt, whatever the map held
\* before
C26_RunLeavesLiveStateOfCache ==
  [][\A c \in calls : \A i \in DOMAIN observed :
       /\ c.kind = "check"
       /\ observed[i].run = c.id
       /\ returned'.call.id = c.id
       /\ returned'.outcome = "resolved"
       => liveState' = TrackedFrom(observed[i].seen)]_vars

\* the number of streamers starred in the document and live in the items
LiveStarred(items, assignments) ==
  Cardinality({s \in StarredStreamers(items, assignments) : items[s].isLive})

\* C28: when a live check that evaluated the follow cache returns, the badge
\* shows the number of streamers it found starred in the tag document and
\* live in the follow cache; when a syncLiveAssignments call that changed the
\* live state returns, the badge shows the number of streamers starred in
\* the tag document and live in the follow cache the call used; the text is
\* empty when the number is zero
C28_BadgeCountsStarredLive ==
  [][\A c \in calls :
       /\ returned'.call.id = c.id
       /\ returned'.outcome = "resolved"
       /\ c.pc = "badge"
       => /\ \A i \in DOMAIN observed :
               c.kind = "check" /\ observed[i].run = c.id
               => badge' = BadgeText(Cardinality({s \in DOMAIN observed[i].seen :
                                                    observed[i].seen[s].isLive}))
          /\ c.kind = "sync"
               => badge' = BadgeText(LiveStarred(c.cache.items,
                             normalizeTagState(storage, clock).assignments))]_vars

\* the entries of the audit log written for job id
EntriesOf(log, id) == {i \in DOMAIN log : log[i].job = id}

\* job j returns in the step
Ends(j) == j \in jobs /\ \A k \in jobs' : k.id # j.id

C22_OneTimerRearmed ==
  [][~alarm.available
     => /\ Cardinality(timers') <= 1
        /\ \A j \in jobs :
             j.kind = "fallback" /\ Ends(j) /\ shouldRunLiveChecks'
             => liveCheckTimeoutId' # 0 /\ timers' = {liveCheckTimeoutId'}
        /\ (\E t \in timers : t \notin timers') /\ jobs' = jobs /\ shouldRunLiveChecks'
             => liveCheckTimeoutId' # 0 /\ timers' = {liveCheckTimeoutId'}]_vars

\* a fallback run whose live check threw has ended, and the timer is pending
C22_Witness ==
  /\ ~alarm.available
  /\ shouldRunLiveChecks
  /\ jobs = {}
  /\ \E i \in DOMAIN updateLog :
       updateLog[i].trigger = "fallback" /\ ~updateLog[i].success
  /\ liveCheckTimeoutId # 0
  /\ timers = {liveCheckTimeoutId}

\* an initialization run is in flight: runLiveCheckAndLog('initialization')
\* was called and has not returned
InitializationRunning ==
  \E j \in jobs : j.trigger = "initialization" /\ j.run # 0

\* a scheduled tick (the alarm fired or a fallback timer fired) happens in the
\* step: a scheduler function is counted, and no call of
\* ensureLiveChecksRunning or stopLiveChecks begins
ScheduledTick ==
  /\ nextJob' = nextJob + 1
  /\ shouldRunLiveChecks' = shouldRunLiveChecks
  /\ \A j \in jobs' \ jobs : j.id = nextJob => j.kind \in {"alarm", "fallback"}
  /\ jobs' = jobs => timers' # timers \/ alarm.set

\* the tick of the step was suppressed: no live check was started, no job
\* goes on to write an audit entry
Suppressed ==
  /\ jobs' = jobs
  /\ calls' = calls
  /\ updateLog' = updateLog

\* C29: a scheduled tick is suppressed exactly when an initialization run is
\* in flight or the run that completed last was a successful, non-skipped
\* initialization run that completed less than 1.5 seconds earlier; a run
\* with another trigger is started whenever it is asked for
C29_SuppressedAfterInitialization ==
  [][/\ ScheduledTick
        => (Suppressed
            <=> \/ InitializationRunning
                \/ /\ completedRuns # <<>>
                   /\ completedRuns[Len(completedRuns)].trigger = "initialization"
                   /\ completedRuns[Len(completedRuns)].success
                   /\ clock - completedRuns[Len(completedRuns)].completedAt < 1500)
     /\ \A j \in jobs' \ jobs :
          j.id = nextJob /\ j.kind = "ensure" /\ j.runImmediately /\ shouldRunLiveChecks
          => j.pc = "running" /\ \E c \in calls' \ calls : c.id = j.run]_vars

\* C29 as the specification words it: a scheduled tick is suppressed
\* whenever an initialization run is in flight or some successful,
\* non-skipped initialization run completed less than 1.5 seconds earlier
C29_SuppressedWithinDebounce ==
  [][ScheduledTick
     /\ \/ InitializationRunning
        \/ \E i \in DOMAIN completedRuns :
             /\ completedRuns[i].trigger = "initialization"
             /\ completedRuns[i].success
             /\ clock - completedRuns[i].completedAt < 1500
     => Suppressed]_vars

\* an alarm was suppressed one second after a successful initialization run
C29_Witness ==
  /\ completedRuns # <<>>
  /\ completedRuns[Len(completedRuns)] = recordRunMeta("initialization", TRUE, clock - 1000)
  /\ jobs = {}
  /\ calls = {}
  /\ nextJob = 2
  /\ Len(updateLog) = 1

\* C30: the live check of an alarm that fired while initializeLiveTracking
\* was executing never decides to notify for a streamer whose broadcast the
\* persisted live state records as live with the same startedAt
C30_NoNotificationForPersistedBroadcast ==
  [][\A c \in calls' : \A j \in jobs :
       /\ j.kind = "alarm" /\ j.duringInit /\ j.run = c.id
       /\ c.pc = "notify"
       /\ \E d \in calls : d.id = c.id /\ d.pc = "tags"
       => \A s \in c.pending :
            ~ /\ s \in DOMAIN savedLiveState
              /\ savedLiveState[s].isLive
              /\ savedLiveState[s].startedAt = c.cache.items[s].startedAt]_vars

\* C31: the platform alarm and the fallback timer are never armed together
C31_AlarmAndTimerNeverBothArmed ==
  ~(alarm.set /\ timers # {})

\* the operation with ticket t was accepted and has not settled: it waits in
\* the queue or its body is running
Pending(t) == t \in QueuedTickets \cup RunningTickets

\* C32: every accepted operation is eventually settled, having left the
\* queue only by being started and the running bodies only by settling; a
\* body that rejects settles its own caller only, and with its settling the
\* flag is reset and the operation next in the queue is started
C32_AcceptedEventuallySettled ==
  /\ \A t \in 1..MaxOps : Pending(t) ~> (settled.ticket = t)
  /\ [][/\ \A t \in QueuedTickets \ QueuedTickets' : t \in RunningTickets'
        /\ \A t \in RunningTickets \ RunningTickets' : settled'.ticket = t]_vars
  /\ [][settled' # settled /\ settled'.outcome = "rejected"
         => /\ QueuedTickets' \cup RunningTickets'
                 = (QueuedTickets \cup RunningTickets) \ {settled'.ticket}
            /\ IF operationQueue = <<>>
               THEN ~isOperationInProgress' /\ RunningTickets' = {}
               ELSE /\ isOperationInProgress'
                    /\ RunningTickets' = {Head(operationQueue).ticket}
                    /\ operationQueue' = Tail(operationQueue)]_vars

\* the first operation threw while two others waited: its caller was
\* rejected, the second is running and the third still waits
C32_Witness ==
  /\ settled.ticket = 1
  /\ settled.outcome = "rejected"
  /\ isOperationInProgress
  /\ RunningTickets = {2}
  /\ QueuedTickets = {3}

\* C33: when a handleImport call rejects, the persisted document is the one
\* that was persisted when it was called
C33_RejectedImportLeavesDocument ==
  [][importRun' # importRun /\ importRun'.pc = "idle" /\ importRun'.outcome = "rejected"
     => storage' = (IF importRun.pc = "idle" THEN storage ELSE importRun.before)]_vars

\* the follow cache edited while it is rebuilt: the user signed in, the
\* streamer cached as offline and live since the start at the remote API
InitCacheEdit ==
  /\ TagManagerIdle({defaultTagState})
  /\ normalizeRun = NoNormalize
  /\ FollowIdle({SignedIn}, {CacheOf(Offline)}, {LiveSince(10)})
  /\ LiveIdle({EmptyMap}, {defaultPreferences})

\* refreshFollowCache, addStreamerToCache and removeStreamerFromCache called
\* by the surfaces, two calls overlapping
NextCacheEdit ==
  \/ \E force \in BOOLEAN : FollowStep(refreshFollowCache(force, 2))
  \/ \E s \in {Streamer, Stranger} : FollowStep(addStreamerToCache(s, 2))
  \/ \E s \in {Streamer, Stranger} : FollowStep(removeStreamerFromCache(s, 2))
  \/ FollowStep(AuthStatusRead)
  \/ FollowStep(EnsureAuth)
  \/ FollowStep(CacheRead)
  \/ FollowStep(SnapshotBuilt)
  \/ FollowStep(CacheStored)
  \/ FollowStep(SignedOut)
  \/ FollowStep(CacheCleared)
  \/ FollowStep(AuthBroadcast)
  \/ FollowStep(StreamerFetched)
  \/ FollowStep(AddCacheRead)
  \/ FollowStep(RemoveCacheRead)
  \/ FollowStep(EditStored)
  \/ Tick({5 * Minute})

SpecCacheEdit == InitCacheEdit /\ [][NextCacheEdit]_vars

\* the call that settled last is a refreshFollowCache whose rebuild was
\* persisted, and the persisted cache is still the one it stored
RebuildPersisted ==
  /\ returned.call.kind = "refresh"
  /\ returned.call.pc = "store"
  /\ returned.outcome = "resolved"
  /\ followCache = returned.cache

\* C34: once a full rebuild has persisted a cache with fetchedAt = t, the
\* persisted cache is not replaced by a value whose fetchedAt is older than
\* t, nor by the edited copy of a cache that was read before the rebuild
C34_RebuildNeverOverwrittenByOlder ==
  [][RebuildPersisted /\ followCache' # followCache /\ followCache' # NoCache
     => /\ followCache'.fetchedAt >= followCache.fetchedAt
        /\ \A c \in calls \ calls' :
             c.pc = "editStore" => c.cachedAt >= followCache.fetchedAt]_vars

\* refreshFollowCache and getDashboardPayload called by the surfaces, each
\* call after the previous one settled
NextStale ==
  \/ NextDashboard
  \/ \E force \in BOOLEAN : FollowStep(refreshFollowCache(force, 1))

SpecStale == InitDashboard /\ [][NextStale]_vars

\* the record of call c after the step, if it is still in progress
After(c) == {d \in calls' : d.id = c.id}

\* the rebuild of call c settles in this step, and not with a stored cache
\* nor with a 401 or 403
RebuildFails(c) ==
  /\ c \notin calls'
  /\ \/ c.pc = "build" /\ \A d \in After(c) : d.pc \notin {"store", "signOut"}
     \/ /\ c.pc = "store"
        /\ ~(After(c) = {} /\ returned'.call.id = c.id /\ returned'.outcome = "resolved")

\* C36: when a rebuild fails with an error other than 401/403, the persisted
\* cache and the stored credentials stay as they were and the error reaches
\* the caller of refreshFollowCache (a surface, or the catch of
\* getDashboardPayload); getDashboardPayload then resolves with the items and
\* fetchedAt of the persisted cache, which getStoredFollowCache returned and
\* which is the cache that was persisted before the rebuild
C36_FailedRebuildKeepsCache ==
  [][\A c \in calls :
       /\ RebuildFails(c)
          => /\ followCache' = followCache
             /\ authState' = authState
             /\ IF c.kind = "dashboard"
                THEN \E d \in After(c) : d.pc = "dashStored" /\ d.phase = "caught"
                ELSE /\ After(c) = {}
                     /\ returned'.call.id = c.id
                     /\ returned'.outcome = "rejected"
                     /\ returned'.status \notin {401, 403}
       /\ /\ c.kind = "dashboard" /\ c.phase = "caught" /\ c.readAt # -1 /\ c.status = 0
          /\ c \notin calls' /\ returned'.call.id = c.id
          => /\ returned'.outcome = "resolved"
             /\ returned'.cache = followCache
             /\ DashboardPayload(returned').follows = followCache.items
             /\ DashboardPayload(returned').fetchedAt
                  = (IF c.cachedAt = -1 THEN 0 ELSE c.cachedAt)]_vars

\* a forced refresh inside getDashboardPayload failed with the streamer
\* offline at the remote API, and the payload carries the cache persisted
\* before, in which the streamer is live
C36_Witness ==
  /\ returned.call.kind = "dashboard"
  /\ returned.call.force
  /\ returned.call.phase = "caught"
  /\ returned.call.status = 0
  /\ returned.call.readAt # -1
  /\ followCache = CacheOf(LiveSince(10))
  /\ authState = returned.call.auth
  /\ remote = Offline
  /\ DashboardPayload(returned).follows = LiveSince(10)

\* calls of upsertTag with a color field: a hex value, with and without '#',
\* a color name, a value one digit short, a value with a letter past 'f', a
\* blank and an empty string, on an update and on a creation
ColorInputs ==
  {UpsertOp(FALSE, <<>>, TRUE, color, "1") :
     color \in {ColorUpper, ColorBad, <<"#", "1", "2", "3", "4", "5">>,
                <<"1", "2", "3", "4", "5", "g">>, <<" ">>, <<>>}}
  \cup {UpsertOp(TRUE, NameCd, TRUE, color, "") :
          color \in {<<"#">> \o ColorUpper, ColorBad, <<" ">>}}

NextColor ==
  \/ \E op \in ColorInputs : Submit(op, MaxCalls)
  \/ Load
  \/ Quota
  \/ WriteDone

SpecColor == Init /\ [][NextColor]_vars

\* C37: an upsertTag whose color field, trimmed, is a non-empty string that is
\* not a 6-hex-digit value (with or without '#') rejects with the error of
\* the color check, and the step in which it settles leaves the persisted
\* document as it was
C37_InvalidColorRejected ==
  [][\A b \in running :
       /\ settled'.ticket = b.ticket
       /\ b.op.kind = "upsertTag" /\ b.op.colorProvided
       /\ Trim(b.op.color) # <<>> /\ ~IsHexColor(Trim(b.op.color))
       => /\ settled'.outcome = "rejected"
          /\ settled'.error = "Tag color must be a 6-digit hex value."
          /\ storage' = storage]_vars

\* the recoloring of tag 1 with a color name was rejected, and the tag keeps
\* the color it had
C37_Witness ==
  /\ settled.outcome = "rejected"
  /\ settled.error = "Tag color must be a 6-digit hex value."
  /\ settled.op.color = ColorBad
  /\ settled.op.tagId = "1"
  /\ "1" \in DOMAIN storage.tags
  /\ IsHexColor(storage.tags["1"].color)

\* C37 as stated: an upsertTag whose provided color does not parse as a
\* 6-hex-digit value rejects, and the step in which it settles leaves the
\* persisted document as it was
C37_UnparsedColorRejected ==
  [][\A b \in running :
       /\ settled'.ticket = b.ticket
       /\ b.op.kind = "upsertTag" /\ b.op.colorProvided
       /\ ~IsHexColor(Trim(b.op.color))
       => /\ settled'.outcome = "rejected"
          /\ storage' = storage]_vars

\* calls of updateAssignment and replaceAssignments: a tag assigned twice and
\* unassigned, lists replaced by a list that names a tag twice and an unknown
\* tag, by a list of one tag and by the empty list
AssignInputs ==
  {AssignOp("s1", "1", TRUE), AssignOp("s1", "2", TRUE), AssignOp("s1", "1", FALSE),
   AssignOp("s2", "2", TRUE),
   ReplaceOp("s2", <<"2", "1", "2", "9">>), ReplaceOp("s1", <<"1">>), ReplaceOp("s1", <<>>)}

NextAssign ==
  \/ \E op \in AssignInputs : Submit(op, MaxCalls)
  \/ Load
  \/ Quota
  \/ WriteDone

SpecAssign == Init /\ [][NextAssign]_vars

\* C38: after any sequence of updateAssignment and replaceAssignments calls,
\* no assignment list of the persisted document names a tag id twice
C38_NoRepeatedTagId ==
  \A s \in DOMAIN storage.assignments :
    \A i, j \in 1..Len(storage.assignments[s]) :
      storage.assignments[s][i] = storage.assignments[s][j] => i = j

NameEf == <<"E", "f">>

\* stored documents with three custom tags, in the order of creation and in
\* the order 3, 1, 2
ThreeTagDocuments ==
  { StoredAfter(defaultTagState,
                <<UpsertOp(TRUE, NameAb, FALSE, <<>>, ""),
                  UpsertOp(TRUE, NameCd, FALSE, <<>>, ""),
                  UpsertOp(TRUE, NameEf, FALSE, <<>>, "")>> \o tail, 1) :
      tail \in {<<>>, <<ReorderOp(<<"3", "1">>)>>} }

\* calls of reorderTags: every tag listed; one tag listed; a repeated, the
\* starred and an unknown id among the listed; nothing listed; and a removal
\* between them
ReorderCalls ==
  {ReorderOp(<<"2", "3", "1">>), ReorderOp(<<"3">>), ReorderOp(<<"2">>),
   ReorderOp(<<"2", "9", "2", STARRED_TAG_ID, "1">>), ReorderOp(<<>>),
   RemoveOp("1")}

InitReorder ==
  /\ TagManagerIdle(ThreeTagDocuments)
  /\ normalizeRun = NoNormalize
  /\ FollowIdle({NoAuth}, {NoCache}, {EmptyMap})
  /\ LiveIdle({EmptyMap}, {defaultPreferences})

NextReorder ==
  \/ \E op \in ReorderCalls : Submit(op, MaxCalls)
  \/ Load
  \/ Quota
  \/ WriteDone

SpecReorder == InitReorder /\ [][NextReorder]_vars

\* where id occurs first in the list ids
FirstIndex(ids, id) ==
  CHOOSE i \in 1..Len(ids) : ids[i] = id /\ \A j \in 1..(i - 1) : ids[j] # id

\* C39: reorderTags(orderedIds) gives the listed custom tags the positions 1,
\* 2, ... in the order of their first occurrence in the list (unknown,
\* repeated and starred ids take no position), the custom tags not listed the
\* following positions in the order they had, and the starred tag position 0
C39_ReorderPositions ==
  [][\A b \in running :
       /\ b.op.kind = "reorderTags"
       /\ settled'.ticket = b.ticket /\ settled'.outcome = "resolved"
       => LET ids == b.op.tagIds
              custom == DOMAIN storage.tags \ {STARRED_TAG_ID}
              listed == {k \in custom : Includes(ids, k)}
              before(k) == storage.tags[k].sortOrder
              after(k) == storage'.tags[k].sortOrder
          IN /\ DOMAIN storage'.tags = DOMAIN storage.tags
             /\ after(STARRED_TAG_ID) = 0
             /\ \A k \in listed :
                  after(k) = 1 + Cardinality({x \in listed :
                                                FirstIndex(ids, x) < FirstIndex(ids, k)})
             /\ \A k \in custom \ listed :
                  after(k) = Cardinality(listed) + 1
                             + Cardinality({x \in custom \ listed : before(x) < before(k)})
             /\ settled'.state = storage']_vars

\* reorderTags(['3']) over the tags in the order 1, 2, 3: tag 3 comes first,
\* tags 1 and 2 follow in their order
C39_Witness ==
  /\ settled.op = ReorderOp(<<"3">>)
  /\ settled.outcome = "resolved"
  /\ settled.ticket = 1
  /\ storage.tags["3"].sortOrder = 1
  /\ storage.tags["1"].sortOrder = 2
  /\ storage.tags["2"].sortOrder = 3
  /\ storage.tags[STARRED_TAG_ID].sortOrder = 0

\* sign-in flows started while signed out or signed in
InitOAuth ==
  /\ TagManagerIdle({defaultTagState})
  /\ normalizeRun = NoNormalize
  /\ FollowIdle({NoAuth, SignedIn}, {NoCache}, {EmptyMap})
  /\ LiveIdle({EmptyMap}, {defaultPreferences})

\* startOAuthFlow called by the surfaces, two flows overlapping
NextOAuth ==
  \/ \E interactive \in BOOLEAN : FollowStep(startOAuthFlow(interactive, 2))
  \/ FollowStep(RedirectReceived)
  \/ FollowStep(ProfileFetched)
  \/ FollowStep(AuthSaved)
  \/ FollowStep(AuthCleanedUp)

SpecOAuth == InitOAuth /\ [][NextOAuth]_vars

\* C40: credentials are stored only by a flow whose redirect carried the
\* state token generated for it, never by one whose redirect carried another
\* state or none; and a flow that fails leaves no stored credentials
C40_CredentialsOnlyWithOwnState ==
  [][/\ authState' # authState /\ authState' # NoAuth
        => \E c \in calls :
             /\ c.kind = "oauth" /\ c.pc = "oauthSave" /\ c \notin calls'
             /\ authState' = c.auth
             /\ c.tokenResult.state = c.stateToken
     /\ \A c \in calls :
          c.kind = "oauth" /\ returned'.call.id = c.id /\ returned'.outcome = "rejected"
          => authState' = NoAuth]_vars

\* C35: a body leaves the quota check of setTagState towards storageSet only
\* when the usage read was below the block threshold; otherwise its caller
\* is rejected in that step, before any write, with the message that carries
\* the suggestions, and the persisted document stays as it was
C35_BlockedWriteRejected ==
  [][\A b \in running :
       b.pc = "quota" /\ (\A c \in running' : c.ticket = b.ticket => c.pc # "quota")
       => \/ \E c \in running' :
               /\ c.ticket = b.ticket
               /\ c.pc = "write"
               /\ c.usage < QUOTA_BLOCK_THRESHOLD
               /\ storage' = storage
          \/ /\ b.ticket \notin RunningTickets'
             /\ settled'.ticket = b.ticket
             /\ settled'.outcome = "rejected"
             /\ settled'.error = QuotaExceededMessage
             /\ storage' = storage]_vars

\* removeTag of an existing tag was rejected by the quota check, and the
\* document still holds the tag
C35_Witness ==
  /\ settled.outcome = "rejected"
  /\ settled.error = QuotaExceededMessage
  /\ settled.op.kind = "removeTag"
  /\ "1" \in DOMAIN storage.tags

====
